---- MODULE Spec2Model ----
(***************************************************************************)
(* A model of pytato's call transformations (inlining, zeroing of unused   *)
(* bindings, call concatenation), of the codegen preprocessor and of the   *)
(* lowering to loopy.  Array expressions are modelled as nested records,   *)
(* so that TLA+ equality is pytato's structural equality.                  *)
(***************************************************************************)
EXTENDS Integers, Sequences, FiniteSets, TLC

VARIABLES
    pc,             \* position of the driver that is running
    orig_outputs,   \* generate_loopy: the DictOfNamedArrays handed in, as an
                    \* insertion-ordered sequence of <<name, array>>
    outputs,        \* generate_loopy: outputs after preprocessing and tag removal
    compute_order,  \* PreprocessResult.compute_order
    state,          \* CodeGenState: results, kernel instructions, domains, ...
    emitted,        \* output names in the order generate_loopy stored them
    dag,            \* the expression a call transformation works on
    dag_in,         \* the argument of the last call transformation applied
    ops,            \* the call transformations applied so far
    batches,        \* concatenate_calls: the batches of its last run, each
                    \* with its call sites, its plan and its replacements
    call_opts,      \* concatenate_calls: the keyword arguments of its last run
    objs,           \* preprocess: the node objects of the graph handed in,
                    \* object id -> node; bindings refer to object ids
    prep_outputs,   \* preprocess: the outputs handed in, <<name, object id>>
    mapper,         \* the CodeGenPreprocessor object
    new_outputs,    \* preprocess: the outputs copied so far, <<name, array>>
    raised,         \* the exception that ended the running driver, or "none"
    loopy_calls,    \* map_loopy_call: per call its argument, its outcome and
                    \* kernels_seen after it
    namespace,      \* Namespace._symbol_table, name -> array or None
    ns_log,         \* the operations applied to the Namespace, each with its
                    \* outcome and the table after it
    scalar_call,    \* the arguments of the last call of
                    \* _get_binding_to_concatenatability_scalar_expr
    scalar_result   \* ... and its outcome

lvars == <<pc, orig_outputs, outputs, compute_order, state, emitted>>

tvars == <<dag, dag_in, ops, batches, call_opts>>

pvars == <<objs, prep_outputs, mapper, new_outputs, raised, loopy_calls,
          namespace, ns_log, scalar_call, scalar_result>>

vars == <<lvars, tvars, pvars>>

(***************************************************************************)
(* Bounds                                                                  *)
(***************************************************************************)
MaxAxisLen == 1     \* axis lengths of input arrays range over 0..MaxAxisLen
MaxOps == 2         \* call transformations applied in a row to one expression
MaxLoopyCalls == 3  \* LoopyCalls mapped by one CodeGenPreprocessor
MaxNamespaceOps == 3 \* operations applied in a row to one Namespace

(***************************************************************************)
(* Generic helpers                                                         *)
(***************************************************************************)
Range(s) == {s[i] : i \in DOMAIN s}

RECURSIVE SeqSum(_)
SeqSum(s) == IF s = <<>> THEN 0 ELSE Head(s) + SeqSum(Tail(s))

RECURSIVE Reverse(_)
Reverse(s) == IF s = <<>> THEN <<>> ELSE Append(Reverse(Tail(s)), Head(s))

\* the outcome of a routine that returns val, or raises the exception exc
Ok(val) == [ok |-> TRUE, val |-> val]
Raise(exc) == [ok |-> FALSE, exc |-> exc]

\* the sequences of pairwise distinct elements of S, of length 1..Cardinality(S)
RECURSIVE InjSeqs(_)
InjSeqs(S) ==
    IF S = {} THEN {<<>>}
    ELSE {<<>>} \cup UNION {{<<x>> \o t : t \in InjSeqs(S \ {x})} : x \in S}

(***************************************************************************)
(* Scalar expressions (pymbolic primitives used by IndexLambda.expr)       *)
(***************************************************************************)
Constant == [k |-> "Constant"]
Variable(name) == [k |-> "Variable", name |-> name]
Subscript(aggregate, index_tuple) ==
    [k |-> "Subscript", aggregate |-> aggregate, index_tuple |-> index_tuple]
Sum(children) == [k |-> "Sum", children |-> children]
Reduce(bounds, inner_expr) ==
    [k |-> "Reduce", bounds |-> bounds, inner_expr |-> inner_expr]

\* f"_{i}": the name of the elementwise index of axis i
ElwIndexName(i) == <<"_0", "_1", "_2">>[i + 1]
ELWISE_INDEX_RE == {"_0", "_1", "_2"}

(***************************************************************************)
(* Arrays                                                                  *)
(***************************************************************************)
Placeholder(name, shape) ==
    [k |-> "Placeholder", name |-> name, shape |-> shape, tags |-> {}]
IndexLambda(expr, shape, bindings, tags) ==
    [k |-> "IndexLambda", expr |-> expr, shape |-> shape,
     bindings |-> bindings, tags |-> tags]

\* sorted(expr.bindings): binding names in lexicographic order
BindingOrder == <<"idx", "in0", "in1">>
SortedBindings(expr) ==
    SelectSeq(BindingOrder, LAMBDA n : n \in DOMAIN expr.bindings)

ndim(expr) == Len(expr.shape)

(***************************************************************************)
(* pytools.UniqueNameGenerator as used by the code generator: the first    *)
(* name tried is the prefix itself, then prefix_0, prefix_1, ...           *)
(***************************************************************************)
NumberedName(based_on, n) ==
    IF n = 0 THEN based_on ELSE based_on \o "_" \o ToString(n - 1)
UniqueName(existing_names, based_on) ==
    LET free(n) == NumberedName(based_on, n) \notin existing_names
    IN  NumberedName(based_on,
                     CHOOSE n \in 0..Cardinality(existing_names) :
                         free(n) /\ \A m \in 0..(n - 1) : ~free(m))

(***************************************************************************)
(* ImplementedResult and its three implementations.  A loopy expression is *)
(* abstracted to the buffers it reads and the substitution rules it calls; *)
(* a PersistentExpressionContext is [reads, calls, depends_on, state].     *)
(***************************************************************************)
StoredResult(name, num_indices, depends_on) ==
    [rk |-> "StoredResult", name |-> name, num_indices |-> num_indices,
     depends_on |-> depends_on]
InlinedResult(reads, calls, num_indices, depends_on) ==
    [rk |-> "InlinedResult", reads |-> reads, calls |-> calls,
     num_indices |-> num_indices, depends_on |-> depends_on]
SubstitutionRuleResult(subst_name, num_args, depends_on) ==
    [rk |-> "SubstitutionRuleResult", subst_name |-> subst_name,
     num_args |-> num_args, depends_on |-> depends_on]

PersistentExpressionContext(st) ==
    [reads |-> {}, calls |-> {}, depends_on |-> {}, state |-> st]

update_depends_on(ctx, other) ==
    [ctx EXCEPT !.depends_on = @ \cup other]

StoredResult_to_loopy_expression(res, ctx) ==
    [update_depends_on(ctx, res.depends_on) EXCEPT !.reads = @ \cup {res.name}]

\* variant: the dependencies of an inlined operand are not accumulated
InlinedResult_without_depends_on(res, ctx) ==
    [ctx EXCEPT !.reads = @ \cup res.reads, !.calls = @ \cup res.calls]

InlinedResult_to_loopy_expression(res, ctx) ==
    [update_depends_on(ctx, res.depends_on) EXCEPT
        !.reads = @ \cup res.reads, !.calls = @ \cup res.calls]

SubstitutionRuleResult_to_loopy_expression(res, ctx) ==
    [update_depends_on(ctx, res.depends_on) EXCEPT
        !.calls = @ \cup {res.subst_name}]

to_loopy_expression(res, ctx) ==
    CASE res.rk = "StoredResult" -> StoredResult_to_loopy_expression(res, ctx)
      [] res.rk = "InlinedResult" -> InlinedResult_to_loopy_expression(res, ctx)
      [] res.rk = "SubstitutionRuleResult" ->
            SubstitutionRuleResult_to_loopy_expression(res, ctx)

(***************************************************************************)
(* CodeGenState                                                            *)
(***************************************************************************)
get_initial_codegen_state ==
    [results |-> <<>>,              \* Array -> ImplementedResult
     instructions |-> <<>>,         \* kernel.instructions
     domains |-> <<>>,              \* kernel.domains
     substitutions |-> <<>>,        \* kernel.substitutions: name -> rule
     args |-> <<>>,                 \* kernel.args
     temporary_variables |-> {},    \* kernel.temporary_variables (names)
     existing_names |-> {},         \* var_name_gen
     insn_ids |-> {},               \* insn_id_gen
     exc |-> "none"]                \* the exception that ended the lowering

Put(f, key, val) == (key :> val) @@ f

(***************************************************************************)
(* InlinedExpressionGenMapper: translates IndexLambda.expr.  ns is the     *)
(* local namespace (binding name -> ImplementedResult), rb the reduction   *)
(* bounds in scope.                                                        *)
(***************************************************************************)
RECURSIVE exprgen_mapper(_, _, _, _)
RECURSIVE exprgen_seq(_, _, _, _)
exprgen_seq(es, ns, rb, ctx) ==
    IF es = <<>> THEN ctx
    ELSE exprgen_seq(Tail(es), ns, rb, exprgen_mapper(Head(es), ns, rb, ctx))

map_reduce_domain(inames) == [kind |-> "reduction", inames |-> inames]

exprgen_mapper(expr, ns, rb, ctx) ==
    CASE expr.k = "Constant" -> ctx
      [] expr.k = "Variable" ->
            IF expr.name \in ELWISE_INDEX_RE \/ expr.name \in rb
            THEN ctx
            ELSE to_loopy_expression(ns[expr.name], ctx)
      [] expr.k = "Subscript" ->
            to_loopy_expression(ns[expr.aggregate],
                                exprgen_seq(expr.index_tuple, ns, rb, ctx))
      [] expr.k = "Sum" -> exprgen_seq(expr.children, ns, rb, ctx)
      [] expr.k = "Reduce" ->
            \* one bound variable per reduction in this model
            LET old_name == CHOOSE b \in expr.bounds : TRUE
                new_name == UniqueName(ctx.state.existing_names,
                                       "_pt_sum" \o old_name)
                ctx1 == [ctx EXCEPT !.state.existing_names = @ \cup {new_name}]
                ctx2 == exprgen_mapper(expr.inner_expr, ns,
                                       rb \cup expr.bounds, ctx1)
            IN  [ctx2 EXCEPT !.state.domains =
                                Append(@, map_reduce_domain({new_name}))]

(***************************************************************************)
(* add_store, add_substitution                                             *)
(***************************************************************************)
\* variant: no array is taken to be empty
result_is_never_empty(expr) == FALSE

result_is_empty(expr) == \E i \in DOMAIN expr.shape : expr.shape[i] = 0

store_domain(inames) == [kind |-> "store", inames |-> inames]

\* returns [state, insn_id]
add_store(name, expr, result, st, output_to_temporary) ==
    LET inames == {name \o "_dim" \o ToString(d) : d \in 0..(ndim(expr) - 1)}
        ctx == to_loopy_expression(result, PersistentExpressionContext(st))
        insn_id == UniqueName(st.insn_ids, name \o "_store")
        insn == [id |-> insn_id, assignee |-> name, reads |-> ctx.reads,
                 calls |-> ctx.calls, within_inames |-> inames,
                 depends_on |-> ctx.depends_on]
        additional_domains ==
            IF result_is_empty(expr) THEN <<>> ELSE <<store_domain(inames)>>
        additional_insns ==
            IF result_is_empty(expr) THEN <<>> ELSE <<insn>>
        st1 == [ctx.state EXCEPT
                   !.insn_ids = @ \cup {insn_id},
                   !.domains = @ \o additional_domains,
                   !.instructions = @ \o additional_insns]
    IN  [state |-> IF output_to_temporary
                   THEN [st1 EXCEPT !.temporary_variables = @ \cup {name}]
                   ELSE [st1 EXCEPT !.args = Append(@, name)],
         insn_id |-> insn_id]

add_substitution(subst_name, expr, result, st) ==
    LET ctx == to_loopy_expression(result, PersistentExpressionContext(st))
    IN  [ctx.state EXCEPT !.substitutions =
            Put(@, subst_name, [reads |-> ctx.reads, calls |-> ctx.calls])]

(***************************************************************************)
(* CodeGenMapper                                                           *)
(***************************************************************************)
\* the name tags an array can carry; tags are kept as strings
Identifiers == {"x", "y", "_pt_data", "_pt_in"}
Named(name) == "Named(" \o name \o ")"
PrefixNamed(prefix) == "PrefixNamed(" \o prefix \o ")"
tags_of_type_Named(expr) == {n \in Identifiers : Named(n) \in expr.tags}
tags_of_type_PrefixNamed(expr) ==
    {n \in Identifiers : PrefixNamed(n) \in expr.tags}

\* returns the name, which the caller finds added to var_name_gen, or raises
_generate_name_for_temp(expr, var_name_gen, default_prefix) ==
    IF tags_of_type_Named(expr) # {} THEN
        LET name == CHOOSE n \in tags_of_type_Named(expr) : TRUE
        IN  IF name \in var_name_gen THEN Raise("ValueError")
            ELSE Ok(name)
    ELSE IF tags_of_type_PrefixNamed(expr) # {} THEN
        Ok(UniqueName(var_name_gen,
                         CHOOSE n \in tags_of_type_PrefixNamed(expr) : TRUE))
    ELSE Ok(UniqueName(var_name_gen, default_prefix))

RECURSIVE CodeGenMapper(_, _)
RECURSIVE rec_bindings(_, _, _)
rec_bindings(expr, names, st) ==
    IF names = <<>> \/ st.exc # "none" THEN st
    ELSE rec_bindings(expr, Tail(names),
                      CodeGenMapper(expr.bindings[Head(names)], st))

map_placeholder(expr, st) ==
    IF expr \in DOMAIN st.results THEN st
    ELSE [st EXCEPT
            !.args = Append(@, expr.name),
            !.results = Put(@, expr,
                            StoredResult(expr.name, ndim(expr), {}))]

\* a tag that is an ImplementationStrategy other than ImplStored,
\* ImplInlined and ImplSubstitution
OtherImplementationStrategy == "ImplementationStrategy"

\* map_index_lambda once the bindings are lowered, st1 being the state then
implement_index_lambda(expr, st1) ==
    IF st1.exc # "none" THEN st1
    ELSE
    LET local_namespace ==
            [n \in DOMAIN expr.bindings |-> st1.results[expr.bindings[n]]]
        prstnt_ctx == exprgen_mapper(expr.expr, local_namespace, {},
                                     PersistentExpressionContext(st1))
        st2 == prstnt_ctx.state
        result == InlinedResult(prstnt_ctx.reads, prstnt_ctx.calls,
                                ndim(expr), prstnt_ctx.depends_on)
    IN  IF "ImplStored" \in expr.tags THEN
            LET name == _generate_name_for_temp(expr, st2.existing_names,
                                                   "_pt_temp").val
                st3 == [st2 EXCEPT !.existing_names = @ \cup {name}]
                stored == add_store(name, expr, result, st3, TRUE)
            IN  [stored.state EXCEPT !.results =
                    Put(@, expr, StoredResult(name, ndim(expr),
                                              {stored.insn_id}))]
        ELSE IF "ImplInlined" \in expr.tags THEN
            [st2 EXCEPT !.results = Put(@, expr, result)]
        ELSE IF "ImplSubstitution" \in expr.tags THEN
            LET subst_name ==
                    _generate_name_for_temp(expr, st2.existing_names,
                                            "_pt_subst").val
                st3 == [st2 EXCEPT !.existing_names = @ \cup {subst_name}]
                st4 == add_substitution(subst_name, expr, result, st3)
            IN  [st4 EXCEPT !.results =
                    Put(@, expr,
                        SubstitutionRuleResult(subst_name, ndim(expr),
                                               prstnt_ctx.depends_on))]
        ELSE IF OtherImplementationStrategy \in expr.tags THEN
            [st2 EXCEPT !.exc = "NotImplementedError"]
        ELSE [st2 EXCEPT !.results = Put(@, expr, result)]

\* variant: an array already lowered is lowered again
map_index_lambda_uncached(expr, st) ==
    implement_index_lambda(expr, rec_bindings(expr, SortedBindings(expr), st))

map_index_lambda(expr, st) ==
    IF expr \in DOMAIN st.results THEN st
    ELSE implement_index_lambda(expr,
                                rec_bindings(expr, SortedBindings(expr), st))

CodeGenMapper(expr, st) ==
    CASE expr.k = "Placeholder" -> map_placeholder(expr, st)
      [] expr.k = "IndexLambda" -> map_index_lambda(expr, st)

(***************************************************************************)
(* preprocess: the order in which the outputs are computed                 *)
(***************************************************************************)
\* DictOfNamedArrays as an insertion-ordered sequence of <<name, array>>
Keys(d) == {d[i][1] : i \in DOMAIN d}
Lookup(d, name) == d[CHOOSE i \in DOMAIN d : d[i][1] = name][2]

\* DependencyMapper: every array reachable from expr, expr included
RECURSIVE DependencyMapper(_)
DependencyMapper(expr) ==
    {expr} \cup
    IF expr.k = "IndexLambda"
    THEN UNION {DependencyMapper(expr.bindings[n]) : n \in DOMAIN expr.bindings}
    ELSE {}

\* SubsetDependencyMapper(universe)(expr)
SubsetDependencyMapper(universe, expr) == DependencyMapper(expr) \cap universe

\* {output.expr: name for name, output in outputs.items()}: the last name
\* inserted with an expression wins
output_expr_to_name(d, expr) ==
    d[CHOOSE i \in DOMAIN d :
        /\ d[i][2] = expr
        /\ \A j \in DOMAIN d : d[j][2] = expr => j <= i][1]

\* the names the model uses for outputs, in lexicographic order
OutputNames == <<"a", "b", "c">>
NameKey(name) == CHOOSE i \in DOMAIN OutputNames : OutputNames[i] = name

\* pytools.graph.compute_topological_order(graph, key): Kahn's algorithm,
\* the schedulable node with the least key first
RECURSIVE Kahn(_, _, _, _)
Kahn(graph, order, num_predecessors, heap) ==
    IF heap = {} THEN order
    ELSE LET node == CHOOSE n \in heap :
                         \A m \in heap : NameKey(n) <= NameKey(m)
             npred == [c \in DOMAIN graph |->
                          IF c \in graph[node] THEN num_predecessors[c] - 1
                          ELSE num_predecessors[c]]
             pushed == {c \in graph[node] : npred[c] = 0}
         IN  Kahn(graph, Append(order, node), npred,
                  (heap \ {node}) \cup pushed)

compute_topological_order(graph) ==
    LET npred == [c \in DOMAIN graph |->
                     Cardinality({n \in DOMAIN graph : c \in graph[n]})]
    IN  Kahn(graph, <<>>, npred, {n \in DOMAIN graph : npred[n] = 0})

preprocess_dag(d) ==
    LET universe == {d[i][2] : i \in DOMAIN d}
    IN  [name \in Keys(d) |->
            {output_expr_to_name(d, e) :
                e \in SubsetDependencyMapper(universe, Lookup(d, name))}
            \ {name}]

preprocess_compute_order(d) ==
    Reverse(compute_topological_order(preprocess_dag(d)))

(***************************************************************************)
(* generate_loopy                                                          *)
(***************************************************************************)
InputArgumentBase == {"Placeholder", "DataWrapper", "SizeParam"}

\* output.without_tags(ImplStored(), verify_existence=False)
without_ImplStored(expr) ==
    IF expr.k \in InputArgumentBase THEN expr
    ELSE [expr EXCEPT !.tags = @ \ {"ImplStored"}]

\* InputGatherer: the names of the inputs of expr
RECURSIVE InputNames(_)
InputNames(expr) ==
    IF expr.k = "IndexLambda"
    THEN UNION {InputNames(expr.bindings[n]) : n \in DOMAIN expr.bindings}
    ELSE {expr.name}

\* the output loop body of generate_loopy for one output name
store_result(name, expr, stored) ==
    [stored.state EXCEPT !.results =
        Put(@, expr, StoredResult(name, ndim(expr), {stored.insn_id}))]

\* st1 is the state after the mapper has been called on expr
store_lowered(name, expr, st1) ==
    IF st1.exc # "none" THEN st1
    ELSE store_result(name, expr,
                      add_store(name, expr, st1.results[expr], st1, FALSE))

store_output(name, expr, st) ==
    store_lowered(name, expr, CodeGenMapper(expr, st))

(***************************************************************************)
(* Inputs of the lowering: DAGs over one vector x of length n, with        *)
(*   A = x + 1, B = A + x, D = B[_0], R = sum(m, axis=1) for a matrix m    *)
(*   of n rows, S = sum(A), and C = y + 1 for a vector y of length 1.      *)
(***************************************************************************)
ImplTags == {{}, {"ImplStored"}, {"ImplInlined"}, {"ImplSubstitution"},
             {OtherImplementationStrategy}}

Idx0 == Variable("_0")
ArrX(n) == Placeholder("x", <<n>>)
ArrM(n) == Placeholder("m", <<n, 2>>)
ArrA(n, t) ==
    IndexLambda(Sum(<<Subscript("in0", <<Idx0>>), Constant>>), <<n>>,
                [b \in {"in0"} |-> ArrX(n)], t)
ArrB(n, tA, t) ==
    IndexLambda(Sum(<<Subscript("in0", <<Idx0>>), Subscript("in1", <<Idx0>>)>>),
                <<n>>,
                [b \in {"in0", "in1"} |->
                    IF b = "in0" THEN ArrA(n, tA) ELSE ArrX(n)], t)
ArrR(n, t) ==
    IndexLambda(Reduce({"_r0"}, Subscript("in0", <<Idx0, Variable("_r0")>>)),
                <<n>>, [b \in {"in0"} |-> ArrM(n)], t)

ArrD(n, tA, tB) ==
    IndexLambda(Subscript("in0", <<Idx0>>), <<n>>,
                [b \in {"in0"} |-> ArrB(n, tA, tB)], {})
ArrC ==
    IndexLambda(Sum(<<Subscript("in0", <<Idx0>>), Constant>>), <<1>>,
                [b \in {"in0"} |-> Placeholder("y", <<1>>)], {})
\* S = sum(A): a scalar, also when A has no element
ArrS(n, tA) ==
    IndexLambda(Reduce({"_r0"}, Subscript("in0", <<Variable("_r0")>>)), <<>>,
                [b \in {"in0"} |-> ArrA(n, tA)], {})

LowerCandidates(n, tA, tB) ==
    {ArrA(n, tA), ArrB(n, tA, tB), ArrD(n, tA, tB), ArrR(n, tB), ArrC,
     ArrS(n, tA)}

RECURSIVE DictsOver(_, _)
DictsOver(names, cands) ==
    IF names = <<>> THEN {<<>>}
    ELSE {<<<<Head(names), c>>>> \o d :
            c \in cands, d \in DictsOver(Tail(names), cands)}

LowerInit ==
    /\ pc = "start"
    /\ \E n \in 0..MaxAxisLen, tA \in ImplTags,
          tB \in ImplTags \ {{"ImplInlined"}},
          names \in InjSeqs(Range(OutputNames)) \ {<<>>} :
            orig_outputs \in DictsOver(names, LowerCandidates(n, tA, tB))
    /\ outputs = <<>>
    /\ compute_order = <<>>
    /\ state = get_initial_codegen_state
    /\ emitted = <<>>
    /\ dag = <<>> /\ dag_in = <<>> /\ ops = <<>> /\ batches = <<>>
    /\ call_opts = <<>>
    /\ objs = <<>> /\ prep_outputs = <<>> /\ mapper = <<>>
    /\ new_outputs = <<>> /\ raised = "none" /\ loopy_calls = <<>>
    /\ namespace = <<>> /\ ns_log = <<>>
    /\ scalar_call = <<>> /\ scalar_result = <<>>

\* generate_loopy up to the output loop: preprocess, removal of ImplStored
\* from the outputs, set-up of the code generation state
Preprocess ==
    /\ pc = "start"
    /\ pc' = "lower"
    /\ compute_order' = preprocess_compute_order(orig_outputs)
    /\ outputs' = [i \in DOMAIN orig_outputs |->
                      <<orig_outputs[i][1], without_ImplStored(orig_outputs[i][2])>>]
    /\ state' = [get_initial_codegen_state EXCEPT
                    !.existing_names =
                        UNION {InputNames(orig_outputs[i][2]) :
                                  i \in DOMAIN orig_outputs}
                        \cup Keys(orig_outputs)]
    /\ UNCHANGED <<orig_outputs, emitted, tvars, pvars>>

\* one iteration of "for name in compute_order"
StoreOutput ==
    /\ pc = "lower"
    /\ Len(emitted) < Len(compute_order)
    /\ LET name == compute_order[Len(emitted) + 1]
       IN  /\ state' = store_output(name, Lookup(outputs, name), state)
           /\ emitted' = IF state'.exc = "none" THEN Append(emitted, name)
                         ELSE emitted
           /\ pc' = IF state'.exc = "none" THEN pc ELSE "error"
    /\ UNCHANGED <<orig_outputs, outputs, compute_order, tvars, pvars>>

\* the loop is over: the program is bound
Finalize ==
    /\ pc = "lower"
    /\ Len(emitted) = Len(compute_order)
    /\ pc' = "done"
    /\ UNCHANGED <<orig_outputs, outputs, compute_order, state, emitted, tvars, pvars>>

LowerNext == Preprocess \/ StoreOutput \/ Finalize

SpecLower == LowerInit /\ [][LowerNext]_vars

(***************************************************************************)
(* Properties of the lowering                                              *)
(***************************************************************************)
StoresTo(name) ==
    {i \in DOMAIN state.instructions : state.instructions[i].assignee = name}

IsOutputStore(insn) == insn.assignee \in Keys(outputs)
OutputStoreOrder ==
    LET stores == SelectSeq(state.instructions, IsOutputStore)
    IN  [i \in DOMAIN stores |-> stores[i].assignee]

HasZeroAxis(expr) == 0 \in Range(expr.shape)
NonEmptyOutput(name) == ~HasZeroAxis(Lookup(outputs, name))

\* C5 as stated: after generate_loopy every output name of the compute order
\* has exactly one store instruction
C5_Original ==
    pc = "done" =>
        \A name \in Range(compute_order) : Cardinality(StoresTo(name)) = 1

\* C5 (amended): an output whose array has no zero-length axis has exactly
\* one store instruction once its loop iteration has run; an output with a
\* zero-length axis, or one whose iteration has not run, has none
C5_Theorem ==
    pc # "start" =>
        \A name \in Range(compute_order) :
            Cardinality(StoresTo(name)) =
                IF name \in Range(emitted) /\ NonEmptyOutput(name)
                THEN 1 ELSE 0

C5_Witness ==
    /\ pc = "done"
    /\ \E a, b \in Range(compute_order) :
          /\ NonEmptyOutput(a) /\ ~NonEmptyOutput(b)
          /\ Cardinality(StoresTo(a)) = 1
          /\ Lookup(outputs, b).k = "IndexLambda"

Before(seq, x, y) ==
    \E i, j \in DOMAIN seq : i < j /\ seq[i] = x /\ seq[j] = y

IsPermutation(seq, S) ==
    Range(seq) = S /\ Len(seq) = Cardinality(S)

\* the expression of output A depends on the expression of output B
OutputDependsOn(A, B) ==
    /\ Lookup(orig_outputs, B) # Lookup(orig_outputs, A)
    /\ Lookup(orig_outputs, B) \in DependencyMapper(Lookup(orig_outputs, A))

\* C6: compute_order is a permutation of the output names that lists B
\* before A whenever the expression of A depends on the expression of a
\* different output B, and the output stores are emitted in this order
C6_Original ==
    pc # "start" =>
        /\ IsPermutation(compute_order, Keys(orig_outputs))
        /\ \A A, B \in Keys(orig_outputs) :
              (A # B /\ OutputDependsOn(A, B)) => Before(compute_order, B, A)
        /\ pc = "done" =>
              OutputStoreOrder = SelectSeq(compute_order, NonEmptyOutput)

\* the listing of the output names that puts dependencies first and takes,
\* among the outputs whose dependencies are listed, the least name
RECURSIVE LexicographicOrder(_)
LexicographicOrder(listed) ==
    LET ready == {A \in Keys(orig_outputs) \ Range(listed) :
                     \A B \in Keys(orig_outputs) :
                         (A # B /\ OutputDependsOn(A, B)) => B \in Range(listed)}
    IN  IF ready = {} THEN listed
        ELSE LexicographicOrder(
                Append(listed,
                       CHOOSE n \in ready :
                           \A m \in ready : NameKey(n) <= NameKey(m)))

\* the same outputs inserted in another order
Reinsertions(d) ==
    {[i \in DOMAIN d |-> d[perm[i]]] : perm \in InjSeqs(DOMAIN d)
                                        \cap [DOMAIN d -> DOMAIN d]}

\* C15 as stated: among outputs with no dependency between them the one
\* with the lexicographically smaller name comes first in compute_order, and
\* compute_order is the same for every order of insertion of the outputs
C15_Original ==
    pc # "start" =>
        /\ compute_order = LexicographicOrder(<<>>)
        /\ \A d \in Reinsertions(orig_outputs) :
              preprocess_compute_order(d) = compute_order

\* the arrays lowered so far that are IndexLambda and not outputs
NonOutputLambdas ==
    {e \in DOMAIN state.results :
        e.k = "IndexLambda" /\ e \notin {outputs[i][2] : i \in DOMAIN outputs}}

\* the arrays that read e through one of their bindings
Parents(e) ==
    {p \in DOMAIN state.results :
        p.k = "IndexLambda" /\ \E n \in DOMAIN p.bindings : p.bindings[n] = e}

RECURSIVE HasOtherStrategy(_)
HasOtherStrategy(expr) ==
    expr.k = "IndexLambda" /\
        (\/ OtherImplementationStrategy \in expr.tags
         \/ \E n \in DOMAIN expr.bindings : HasOtherStrategy(expr.bindings[n]))

\* what C16 says of substitution, inlining and other strategies: a node
\* tagged ImplSubstitution has a substitution rule of its own, a node tagged
\* ImplInlined or without implementation tag is an InlinedResult, every
\* instruction stores an output or a node tagged ImplStored, and the lowering
\* ends with NotImplementedError exactly at an output that holds a node with
\* another ImplementationStrategy
LoweredByTag ==
    /\ \A e \in NonOutputLambdas :
          LET res == state.results[e]
          IN  /\ "ImplStored" \in e.tags => res.rk = "StoredResult"
              /\ "ImplSubstitution" \in e.tags =>
                    /\ res.rk = "SubstitutionRuleResult"
                    /\ res.subst_name \in DOMAIN state.substitutions
                    /\ \A e2 \in NonOutputLambdas \ {e} :
                          state.results[e2].rk = "SubstitutionRuleResult"
                              => state.results[e2].subst_name # res.subst_name
              /\ ("ImplInlined" \in e.tags \/ e.tags = {}) =>
                    res.rk = "InlinedResult"
              /\ OtherImplementationStrategy \notin e.tags
    /\ \A i \in DOMAIN state.instructions :
          \/ state.instructions[i].assignee \in Keys(outputs)
          \/ \E e \in NonOutputLambdas :
                /\ "ImplStored" \in e.tags
                /\ state.results[e].name = state.instructions[i].assignee
    /\ (pc = "error") <=> (state.exc = "NotImplementedError")
    /\ pc = "error" =>
          HasOtherStrategy(Lookup(outputs, compute_order[Len(emitted) + 1]))
    /\ \A name \in Range(emitted) : ~HasOtherStrategy(Lookup(outputs, name))

StoresOfNode(e) ==
    {i \in DOMAIN state.instructions :
        state.instructions[i].assignee = state.results[e].name}

\* C16 as stated: a non-output IndexLambda tagged ImplStored is a
\* StoredResult with exactly one store instruction, however many arrays read
\* it; ImplSubstitution gives one substitution rule, ImplInlined or no tag an
\* InlinedResult and no instruction, another ImplementationStrategy raises
\* NotImplementedError
C16_Original ==
    /\ LoweredByTag
    /\ \A e \in NonOutputLambdas :
          "ImplStored" \in e.tags => Cardinality(StoresOfNode(e)) = 1

\* C16 (amended): as stated, except that a node tagged ImplStored whose
\* array has a zero-length axis is a StoredResult with no store instruction
C16_Theorem ==
    /\ LoweredByTag
    /\ \A e \in NonOutputLambdas :
          "ImplStored" \in e.tags =>
              Cardinality(StoresOfNode(e)) = IF HasZeroAxis(e) THEN 0 ELSE 1

C16_Witness ==
    /\ pc = "done"
    /\ \E e \in NonOutputLambdas :
          /\ "ImplStored" \in e.tags
          /\ ~HasZeroAxis(e)
          /\ Cardinality(Parents(e)) >= 2
          /\ Cardinality(StoresOfNode(e)) = 1

\* the buffers an instruction reads, directly or through the substitution
\* rules it calls
RECURSIVE ReadsOfRules(_)
ReadsOfRules(calls) ==
    UNION {state.substitutions[c].reads
             \cup ReadsOfRules(state.substitutions[c].calls) : c \in calls}
BuffersRead(insn) == insn.reads \cup ReadsOfRules(insn.calls)

InsnWithId(id) ==
    {state.instructions[i] : i \in
        {j \in DOMAIN state.instructions : state.instructions[j].id = id}}

\* the instruction ids reachable by following depends_on edges
RECURSIVE DependsReach(_, _)
DependsReach(ids, seen) ==
    IF ids \subseteq seen THEN seen
    ELSE DependsReach(
            UNION {UNION {d.depends_on : d \in InsnWithId(id)} : id \in ids},
            seen \cup ids)

\* C7: every buffer read by the right-hand side of a store instruction I that
\* has a store instruction of its own has the id of that instruction among
\* the ids reachable from I along depends_on
C7_Theorem ==
    \A i, j \in DOMAIN state.instructions :
        LET I == state.instructions[i]
            J == state.instructions[j]
        IN  J.assignee \in BuffersRead(I) =>
                J.id \in DependsReach(I.depends_on, {})

C7_Witness ==
    \E i, j \in DOMAIN state.instructions :
        LET I == state.instructions[i]
            J == state.instructions[j]
        IN  /\ J.assignee \in ReadsOfRules(I.calls)
            /\ J.assignee \notin I.reads
            /\ J.id \in I.depends_on

\* C8 as stated: lowering arrays that have a zero-length axis adds no
\* iteration domain and no instruction to the kernel
C8_Original ==
    (\A e \in DOMAIN state.results : HasZeroAxis(e)) =>
        state.domains = <<>> /\ state.instructions = <<>>

InstructionIds ==
    {state.instructions[i].id : i \in DOMAIN state.instructions}

\* C26 as stated: every instruction id in the depends_on of an instruction of
\* the kernel is the id of an instruction of the kernel, also when the
\* dependency is a stored array with a zero-length axis
C26_Original ==
    \A i \in DOMAIN state.instructions :
        state.instructions[i].depends_on \subseteq InstructionIds

\* the expression of output B is a binding of the expression of output A
OutputReads(A, B) ==
    /\ Lookup(orig_outputs, A).k = "IndexLambda"
    /\ \E n \in DOMAIN Lookup(orig_outputs, A).bindings :
          Lookup(orig_outputs, A).bindings[n] = Lookup(orig_outputs, B)

\* B has one store, and the store of A reads the buffer B after that store
ReadsOutputBuffer(A, B) ==
    /\ Cardinality(StoresTo(B)) = 1
    /\ state.results[Lookup(orig_outputs, B)].name = B
    /\ \A i \in StoresTo(A), j \in StoresTo(B) :
          /\ B \in BuffersRead(state.instructions[i])
          /\ state.instructions[j].id \in state.instructions[i].depends_on

\* the expression of output A is output under no other name
SingleName(A) ==
    \A C \in Keys(orig_outputs) :
        Lookup(orig_outputs, C) = Lookup(orig_outputs, A) => C = A

\* C27 as stated: when output A reads output B, B is computed by exactly one
\* store, and the store of A reads the buffer B and depends on the store of
\* B, also when the expression of B is tagged ImplStored (taken for
\* non-empty outputs whose expressions are output under one name each)
C27_Original ==
    pc = "done" =>
        \A A, B \in Keys(orig_outputs) :
            (A # B /\ OutputReads(A, B)
                /\ NonEmptyOutput(A) /\ NonEmptyOutput(B)
                /\ SingleName(A) /\ SingleName(B)) =>
                ReadsOutputBuffer(A, B)

(***************************************************************************)
(* Calls: FunctionDefinition, Call, NamedCallResult, DictOfNamedArrays     *)
(***************************************************************************)
\* parameters maps each parameter name to its Placeholder, returns maps each
\* return name to the array of the body
FunctionDefinition(parameters, returns) ==
    [k |-> "FunctionDefinition", parameters |-> parameters, returns |-> returns]
Call(function, bindings, tags) ==
    [k |-> "Call", function |-> function, bindings |-> bindings, tags |-> tags]
NamedCallResult(container, name) ==
    [k |-> "NamedCallResult", container |-> container, name |-> name]
DictOfNamedArrays(data, tags) ==
    [k |-> "DictOfNamedArrays", data |-> data, tags |-> tags]

get_placeholder(function, name) == function.parameters[name]

RECURSIVE ShapeOf(_)
ShapeOf(expr) ==
    IF expr.k = "NamedCallResult"
    THEN ShapeOf(expr.container.function.returns[expr.name])
    ELSE expr.shape

\* pytato.zeros(shape, dtype): an IndexLambda of the literal 0 without bindings
ZeroLiteral == [k |-> "Constant", value |-> 0]
zeros(shape) == IndexLambda(ZeroLiteral, shape, <<>>, {})

(***************************************************************************)
(* Inlining                                                                *)
(***************************************************************************)
\* PlaceholderSubstitutor(substitutions)(expr): a CopyMapper that replaces
\* placeholders by name and leaves function definitions alone
RECURSIVE PlaceholderSubstitutor(_, _)
PlaceholderSubstitutor(substitutions, expr) ==
    CASE expr.k = "Placeholder" -> substitutions[expr.name]
      [] expr.k = "IndexLambda" ->
            [expr EXCEPT !.bindings =
                [n \in DOMAIN @ |-> PlaceholderSubstitutor(substitutions, @[n])]]
      [] expr.k = "NamedCallResult" ->
            NamedCallResult(PlaceholderSubstitutor(substitutions, expr.container),
                            expr.name)
      [] expr.k = "Call" ->
            [expr EXCEPT !.bindings =
                [n \in DOMAIN @ |-> PlaceholderSubstitutor(substitutions, @[n])]]
      [] expr.k = "DictOfNamedArrays" ->
            [expr EXCEPT !.data =
                [n \in DOMAIN @ |-> PlaceholderSubstitutor(substitutions, @[n])]]
      [] expr.k = "FunctionDefinition" -> expr

\* variant: nothing is inlined
Inliner_identity(expr) == expr

\* Inliner: the mapper of inline_calls
RECURSIVE Inliner(_)
Inliner(expr) ==
    CASE expr.k = "Placeholder" -> expr
      [] expr.k = "IndexLambda" ->
            [expr EXCEPT !.bindings = [n \in DOMAIN @ |-> Inliner(@[n])]]
      [] expr.k = "DictOfNamedArrays" ->
            [expr EXCEPT !.data = [n \in DOMAIN @ |-> Inliner(@[n])]]
      [] expr.k = "FunctionDefinition" ->
            [expr EXCEPT !.returns = [n \in DOMAIN @ |-> Inliner(@[n])]]
      [] expr.k = "Call" ->
            IF "InlineCallTag" \in expr.tags
            THEN DictOfNamedArrays(
                    [name \in DOMAIN expr.function.returns |->
                        Inliner(PlaceholderSubstitutor(
                                    expr.bindings, expr.function.returns[name]))],
                    expr.tags)
            ELSE Call(Inliner(expr.function),
                      [n \in DOMAIN expr.bindings |-> Inliner(expr.bindings[n])],
                      expr.tags)
      [] expr.k = "NamedCallResult" ->
            LET new_call_or_inlined_expr == Inliner(expr.container)
            IN  IF new_call_or_inlined_expr.k = "Call"
                THEN NamedCallResult(new_call_or_inlined_expr, expr.name)
                ELSE new_call_or_inlined_expr.data[expr.name]

inline_calls(expr) == Inliner(expr)

\* InlineMarker: the mapper of tag_all_calls_to_be_inlined
RECURSIVE InlineMarker(_)
InlineMarker(expr) ==
    CASE expr.k = "Placeholder" -> expr
      [] expr.k = "IndexLambda" ->
            [expr EXCEPT !.bindings = [n \in DOMAIN @ |-> InlineMarker(@[n])]]
      [] expr.k = "DictOfNamedArrays" ->
            [expr EXCEPT !.data = [n \in DOMAIN @ |-> InlineMarker(@[n])]]
      [] expr.k = "FunctionDefinition" ->
            [expr EXCEPT !.returns = [n \in DOMAIN @ |-> InlineMarker(@[n])]]
      [] expr.k = "Call" ->
            Call(InlineMarker(expr.function),
                 [n \in DOMAIN expr.bindings |-> InlineMarker(expr.bindings[n])],
                 expr.tags \cup {"InlineCallTag"})
      [] expr.k = "NamedCallResult" ->
            NamedCallResult(InlineMarker(expr.container), expr.name)

tag_all_calls_to_be_inlined(expr) == InlineMarker(expr)

(***************************************************************************)
(* zero_unused_call_bindings                                               *)
(***************************************************************************)
\* InputGatherer: the input arguments reachable from expr; the placeholders
\* of a called function are local to it and are not inputs of the caller
RECURSIVE InputGatherer(_)
InputGatherer(expr) ==
    CASE expr.k = "Placeholder" -> {expr}
      [] expr.k = "IndexLambda" ->
            UNION {InputGatherer(expr.bindings[n]) : n \in DOMAIN expr.bindings}
      [] expr.k = "DictOfNamedArrays" ->
            UNION {InputGatherer(expr.data[n]) : n \in DOMAIN expr.data}
      [] expr.k = "NamedCallResult" -> InputGatherer(expr.container)
      [] expr.k = "Call" ->
            UNION {InputGatherer(expr.bindings[n]) : n \in DOMAIN expr.bindings}
      [] expr.k = "FunctionDefinition" -> {}

\* used_inputs = call_to_used_inputs.setdefault(call, set()); used_inputs |= new
AddUsedInputs(call_to_used_inputs, call, new) ==
    IF call \in DOMAIN call_to_used_inputs
    THEN [call_to_used_inputs EXCEPT ![call] = @ \cup new]
    ELSE (call :> new) @@ call_to_used_inputs

\* _UsedCallInputCollector: walks expr and returns the updated
\* call_to_used_inputs of this collector.  A function body is walked by a
\* clone made by clone_for_callee, whose own call_to_used_inputs is not read
\* by anybody, so a Call contributes through its bindings only.
RECURSIVE _UsedCallInputCollector(_, _)
RECURSIVE CollectAll(_, _, _)
CollectAll(names, children, call_to_used_inputs) ==
    IF names = {} THEN call_to_used_inputs
    ELSE LET n == CHOOSE m \in names : TRUE
         IN  CollectAll(names \ {n}, children,
                        _UsedCallInputCollector(children[n], call_to_used_inputs))
_UsedCallInputCollector(expr, call_to_used_inputs) ==
    CASE expr.k = "Placeholder" -> call_to_used_inputs
      [] expr.k = "IndexLambda" ->
            CollectAll(DOMAIN expr.bindings, expr.bindings, call_to_used_inputs)
      [] expr.k = "DictOfNamedArrays" ->
            CollectAll(DOMAIN expr.data, expr.data, call_to_used_inputs)
      [] expr.k = "NamedCallResult" ->
            LET call == expr.container
            IN  _UsedCallInputCollector(
                    call,
                    AddUsedInputs(call_to_used_inputs, call,
                        InputGatherer(call.function.returns[expr.name])))
      [] expr.k = "Call" ->
            CollectAll(DOMAIN expr.bindings, expr.bindings, call_to_used_inputs)

_collect_used_call_inputs(expr) == _UsedCallInputCollector(expr, <<>>)

\* the lookup self.call_to_used_inputs[expr] of _UnusedCallBindingZeroer
\* raises KeyError somewhere in the traversal of expr
RECURSIVE ZeroerRaises(_, _)
ZeroerRaises(expr, call_to_used_inputs) ==
    CASE expr.k = "Placeholder" -> FALSE
      [] expr.k = "IndexLambda" ->
            \E n \in DOMAIN expr.bindings :
                ZeroerRaises(expr.bindings[n], call_to_used_inputs)
      [] expr.k = "DictOfNamedArrays" ->
            \E n \in DOMAIN expr.data :
                ZeroerRaises(expr.data[n], call_to_used_inputs)
      [] expr.k = "FunctionDefinition" ->
            \E n \in DOMAIN expr.returns :
                ZeroerRaises(expr.returns[n], call_to_used_inputs)
      [] expr.k = "NamedCallResult" ->
            ZeroerRaises(expr.container, call_to_used_inputs)
      [] expr.k = "Call" ->
            \/ ZeroerRaises(expr.function, call_to_used_inputs)
            \/ /\ DOMAIN expr.bindings # {}
               /\ expr \notin DOMAIN call_to_used_inputs
            \/ /\ expr \in DOMAIN call_to_used_inputs
               /\ \E n \in DOMAIN expr.bindings :
                     /\ get_placeholder(expr.function, n)
                            \in call_to_used_inputs[expr]
                     /\ ZeroerRaises(expr.bindings[n], call_to_used_inputs)

\* _UnusedCallBindingZeroer: the rewritten expression when no lookup raises
RECURSIVE _UnusedCallBindingZeroer(_, _)
_UnusedCallBindingZeroer(expr, call_to_used_inputs) ==
    CASE expr.k = "Placeholder" -> expr
      [] expr.k = "IndexLambda" ->
            [expr EXCEPT !.bindings =
                [n \in DOMAIN @ |->
                    _UnusedCallBindingZeroer(@[n], call_to_used_inputs)]]
      [] expr.k = "DictOfNamedArrays" ->
            [expr EXCEPT !.data =
                [n \in DOMAIN @ |->
                    _UnusedCallBindingZeroer(@[n], call_to_used_inputs)]]
      [] expr.k = "FunctionDefinition" ->
            [expr EXCEPT !.returns =
                [n \in DOMAIN @ |->
                    _UnusedCallBindingZeroer(@[n], call_to_used_inputs)]]
      [] expr.k = "NamedCallResult" ->
            NamedCallResult(
                _UnusedCallBindingZeroer(expr.container, call_to_used_inputs),
                expr.name)
      [] expr.k = "Call" ->
            Call(_UnusedCallBindingZeroer(expr.function, call_to_used_inputs),
                 [name \in DOMAIN expr.bindings |->
                    IF get_placeholder(expr.function, name)
                           \in call_to_used_inputs[expr]
                    THEN _UnusedCallBindingZeroer(expr.bindings[name],
                                                  call_to_used_inputs)
                    ELSE zeros(ShapeOf(expr.bindings[name]))],
                 expr.tags)

KeyError == [k |-> "KeyError"]

zero_unused_call_bindings(expr) ==
    LET call_to_used_inputs == _collect_used_call_inputs(expr)
    IN  IF ZeroerRaises(expr, call_to_used_inputs) THEN KeyError
        ELSE _UnusedCallBindingZeroer(expr, call_to_used_inputs)

(***************************************************************************)
(* Inputs of the call transformations: expressions over the placeholders   *)
(* u and v that call                                                       *)
(*   g(b) = {r: b + 1},  f(x, y) = {r: x + 1, s: x + y},                   *)
(*   h(x) = {r: g(x).r}, whose body holds a call site of its own.          *)
(***************************************************************************)
CallTags == {{}, {"InlineCallTag"}}

Add1(a) ==
    IndexLambda(Sum(<<Subscript("in0", <<Idx0>>), Constant>>), <<1>>,
                [n \in {"in0"} |-> a], {})
Add2(a, b) ==
    IndexLambda(Sum(<<Subscript("in0", <<Idx0>>), Subscript("in1", <<Idx0>>)>>),
                <<1>>, [n \in {"in0", "in1"} |-> IF n = "in0" THEN a ELSE b], {})

ArgU == Placeholder("u", <<1>>)
ArgV == Placeholder("v", <<1>>)
ParamB == Placeholder("b", <<1>>)
ParamX == Placeholder("x", <<1>>)
ParamY == Placeholder("y", <<1>>)

FnG == FunctionDefinition([n \in {"b"} |-> ParamB], [n \in {"r"} |-> Add1(ParamB)])
FnF ==
    FunctionDefinition(
        [n \in {"x", "y"} |-> IF n = "x" THEN ParamX ELSE ParamY],
        [n \in {"r", "s"} |->
            IF n = "r" THEN Add1(ParamX) ELSE Add2(ParamX, ParamY)])
FnH(t) ==
    FunctionDefinition(
        [n \in {"x"} |-> ParamX],
        [n \in {"r"} |->
            NamedCallResult(Call(FnG, [m \in {"b"} |-> ParamX], t), "r")])

CallF(a, b, t) ==
    Call(FnF, [n \in {"x", "y"} |-> IF n = "x" THEN a ELSE b], t)

CallLevel1(t, tH) ==
    {ArgU, ArgV,
     NamedCallResult(Call(FnG, [n \in {"b"} |-> ArgU], t), "r"),
     NamedCallResult(CallF(ArgU, ArgV, t), "r"),
     NamedCallResult(CallF(ArgU, ArgV, t), "s"),
     NamedCallResult(Call(FnH(tH), [n \in {"x"} |-> ArgV], t), "r")}

CallLevel2(t, tH, t2) ==
    CallLevel1(t, tH)
    \cup {Add2(a, b) : a, b \in CallLevel1(t, tH)}
    \cup {NamedCallResult(CallF(a, b, t2), n) :
            a, b \in CallLevel1(t, tH), n \in {"r", "s"}}

LastOp == IF ops = <<>> THEN "none" ELSE ops[Len(ops)]

InlineInit ==
    /\ \E t, tH, t2 \in CallTags :
          \E e \in CallLevel2(t, tH, t2) :
              dag = DictOfNamedArrays([n \in {"out"} |-> e], {})
    /\ dag_in = dag
    /\ ops = <<>>
    /\ batches = <<>>
    /\ call_opts = <<>>
    /\ pc = "idle"
    /\ orig_outputs = <<>> /\ outputs = <<>> /\ compute_order = <<>>
    /\ state = get_initial_codegen_state
    /\ emitted = <<>>
    /\ objs = <<>> /\ prep_outputs = <<>> /\ mapper = <<>>
    /\ new_outputs = <<>> /\ raised = "none" /\ loopy_calls = <<>>
    /\ namespace = <<>> /\ ns_log = <<>>
    /\ scalar_call = <<>> /\ scalar_result = <<>>

InlineCalls ==
    /\ Len(ops) < MaxOps
    /\ dag.k # "KeyError"
    /\ dag_in' = dag
    /\ dag' = inline_calls(dag)
    /\ ops' = Append(ops, "inline_calls")
    /\ UNCHANGED <<lvars, batches, call_opts, pvars>>

TagAllCallsToBeInlined ==
    /\ Len(ops) < MaxOps
    /\ dag.k # "KeyError"
    /\ dag_in' = dag
    /\ dag' = tag_all_calls_to_be_inlined(dag)
    /\ ops' = Append(ops, "tag_all_calls_to_be_inlined")
    /\ UNCHANGED <<lvars, batches, call_opts, pvars>>

ZeroUnusedCallBindings ==
    /\ Len(ops) < MaxOps
    /\ dag.k # "KeyError"
    /\ dag_in' = dag
    /\ dag' = zero_unused_call_bindings(dag)
    /\ ops' = Append(ops, "zero_unused_call_bindings")
    /\ UNCHANGED <<lvars, batches, call_opts, pvars>>

InlineNext == InlineCalls \/ TagAllCallsToBeInlined \/ ZeroUnusedCallBindings

SpecInline == InlineInit /\ [][InlineNext]_vars

(***************************************************************************)
(* Properties of the call transformations                                  *)
(***************************************************************************)
\* no Call reachable from expr, through bindings or function bodies, carries
\* InlineCallTag
RECURSIVE NoTaggedCall(_)
NoTaggedCall(expr) ==
    CASE expr.k = "Placeholder" -> TRUE
      [] expr.k = "IndexLambda" ->
            \A n \in DOMAIN expr.bindings : NoTaggedCall(expr.bindings[n])
      [] expr.k = "DictOfNamedArrays" ->
            \A n \in DOMAIN expr.data : NoTaggedCall(expr.data[n])
      [] expr.k = "FunctionDefinition" ->
            \A n \in DOMAIN expr.returns : NoTaggedCall(expr.returns[n])
      [] expr.k = "NamedCallResult" -> NoTaggedCall(expr.container)
      [] expr.k = "Call" ->
            /\ "InlineCallTag" \notin expr.tags
            /\ NoTaggedCall(expr.function)
            /\ \A n \in DOMAIN expr.bindings : NoTaggedCall(expr.bindings[n])

\* new is old with the tagged calls inlined: a result of a tagged call is the
\* return body with the parameters replaced by the bindings (itself inlined),
\* an untagged call is a Call with the same tags whose bindings and function
\* body are inlined, everything else is copied
RECURSIVE IsInlining(_, _)
IsInlining(old, new) ==
    CASE old.k = "Placeholder" -> new = old
      [] old.k = "IndexLambda" ->
            /\ new.k = "IndexLambda"
            /\ new.expr = old.expr /\ new.shape = old.shape
            /\ new.tags = old.tags
            /\ DOMAIN new.bindings = DOMAIN old.bindings
            /\ \A n \in DOMAIN old.bindings :
                  IsInlining(old.bindings[n], new.bindings[n])
      [] old.k = "DictOfNamedArrays" ->
            /\ new.k = "DictOfNamedArrays"
            /\ DOMAIN new.data = DOMAIN old.data
            /\ \A n \in DOMAIN old.data : IsInlining(old.data[n], new.data[n])
      [] old.k = "FunctionDefinition" ->
            /\ new.k = "FunctionDefinition"
            /\ new.parameters = old.parameters
            /\ DOMAIN new.returns = DOMAIN old.returns
            /\ \A n \in DOMAIN old.returns :
                  IsInlining(old.returns[n], new.returns[n])
      [] old.k = "NamedCallResult" ->
            IF "InlineCallTag" \in old.container.tags
            THEN IsInlining(
                    PlaceholderSubstitutor(old.container.bindings,
                        old.container.function.returns[old.name]),
                    new)
            ELSE /\ new.k = "NamedCallResult"
                 /\ new.name = old.name
                 /\ IsInlining(old.container, new.container)
      [] old.k = "Call" ->
            /\ new.k = "Call"
            /\ new.tags = old.tags
            /\ IsInlining(old.function, new.function)
            /\ DOMAIN new.bindings = DOMAIN old.bindings
            /\ \A n \in DOMAIN old.bindings :
                  IsInlining(old.bindings[n], new.bindings[n])

\* C3: inline_calls leaves no Call tagged InlineCallTag anywhere, replaces
\* each result of a tagged call by the return body with the parameters
\* replaced by the caller's bindings, keeps untagged calls as Calls, and
\* returns an expression without tagged calls structurally equal
C3_Theorem ==
    LastOp = "inline_calls" =>
        /\ NoTaggedCall(dag)
        /\ IsInlining(dag_in, dag)
        /\ NoTaggedCall(dag_in) => dag = dag_in

C3_Witness ==
    /\ LastOp = "inline_calls"
    /\ dag_in.data["out"].k = "NamedCallResult"
    /\ dag_in.data["out"].container.function = FnH({"InlineCallTag"})
    /\ dag_in.data["out"].container.tags = {}
    /\ dag.data["out"].k = "NamedCallResult"
    /\ dag.data["out"].container.function.returns["r"] = Add1(ParamX)

\* every NamedCallResult reachable from expr, through bindings and function
\* bodies
RECURSIVE AllNamedCallResults(_)
AllNamedCallResults(expr) ==
    CASE expr.k = "Placeholder" -> {}
      [] expr.k = "IndexLambda" ->
            UNION {AllNamedCallResults(expr.bindings[n]) : n \in DOMAIN expr.bindings}
      [] expr.k = "DictOfNamedArrays" ->
            UNION {AllNamedCallResults(expr.data[n]) : n \in DOMAIN expr.data}
      [] expr.k = "FunctionDefinition" ->
            UNION {AllNamedCallResults(expr.returns[n]) : n \in DOMAIN expr.returns}
      [] expr.k = "NamedCallResult" ->
            {expr} \cup AllNamedCallResults(expr.container)
      [] expr.k = "Call" ->
            AllNamedCallResults(expr.function)
            \cup UNION {AllNamedCallResults(expr.bindings[n]) :
                          n \in DOMAIN expr.bindings}

\* the parameters of call's function that are inputs of a return referenced
\* through a NamedCallResult reachable from root
UsedParameters(call, root) ==
    UNION {InputGatherer(call.function.returns[r.name]) :
             r \in {x \in AllNamedCallResults(root) : x.container = call}}

\* new is old with exactly the unused array bindings of its calls replaced by
\* zeros of the binding's shape
RECURSIVE IsZeroing(_, _, _)
IsZeroing(old, new, root) ==
    CASE old.k = "Placeholder" -> new = old
      [] old.k = "IndexLambda" ->
            /\ new.k = "IndexLambda"
            /\ new.expr = old.expr /\ new.shape = old.shape
            /\ new.tags = old.tags
            /\ DOMAIN new.bindings = DOMAIN old.bindings
            /\ \A n \in DOMAIN old.bindings :
                  IsZeroing(old.bindings[n], new.bindings[n], root)
      [] old.k = "DictOfNamedArrays" ->
            /\ new.k = "DictOfNamedArrays"
            /\ DOMAIN new.data = DOMAIN old.data
            /\ \A n \in DOMAIN old.data :
                  IsZeroing(old.data[n], new.data[n], root)
      [] old.k = "FunctionDefinition" ->
            /\ new.k = "FunctionDefinition"
            /\ new.parameters = old.parameters
            /\ DOMAIN new.returns = DOMAIN old.returns
            /\ \A n \in DOMAIN old.returns :
                  IsZeroing(old.returns[n], new.returns[n], root)
      [] old.k = "NamedCallResult" ->
            /\ new.k = "NamedCallResult"
            /\ new.name = old.name
            /\ IsZeroing(old.container, new.container, root)
      [] old.k = "Call" ->
            /\ new.k = "Call"
            /\ new.tags = old.tags
            /\ IsZeroing(old.function, new.function, root)
            /\ DOMAIN new.bindings = DOMAIN old.bindings
            /\ \A n \in DOMAIN old.bindings :
                  IF get_placeholder(old.function, n) \in UsedParameters(old, root)
                  THEN IsZeroing(old.bindings[n], new.bindings[n], root)
                  ELSE new.bindings[n] = zeros(ShapeOf(old.bindings[n]))

\* C4: zero_unused_call_bindings replaces a binding of a Call by zeros of the
\* binding's shape if and only if its parameter is not an input of a return
\* referenced through a reachable NamedCallResult, and keeps (recursively
\* rewritten) every other binding
C4_Original ==
    LastOp = "zero_unused_call_bindings" => IsZeroing(dag_in, dag, dag_in)

\* C28 as stated: zero_unused_call_bindings finds a used-inputs entry for
\* every Call whose bindings it rewrites, calls inside function bodies
\* included: the lookup call_to_used_inputs[call] never fails
C28_Original ==
    LastOp = "zero_unused_call_bindings" =>
        /\ ~ZeroerRaises(dag_in, _collect_used_call_inputs(dag_in))
        /\ dag # KeyError

(***************************************************************************)
(* Call concatenation: concatenatability of scalar expressions             *)
(***************************************************************************)
ConcatableAlongAxis(axis) == [ck |-> "ConcatableAlongAxis", axis |-> axis]
ConcatableIfConstant == [ck |-> "ConcatableIfConstant"]

\* variant: combine keeps the first requirement on a binding and never raises
RECURSIVE ScalarCombine_first_wins(_, _)
ScalarCombine_first_wins(values, result) ==
    IF values = <<>> THEN Ok(result)
    ELSE IF ~Head(values).ok THEN Head(values)
    ELSE ScalarCombine_first_wins(Tail(values), result @@ Head(values).val)

\* _ScalarExprConcatabilityMapper.combine: merges binding -> concatenatability
\* mappings, two different requirements on one binding raise
RECURSIVE ScalarCombine(_, _)
ScalarCombine(values, result) ==
    IF values = <<>> THEN Ok(result)
    ELSE LET value == Head(values)
         IN  IF ~value.ok THEN value
             ELSE IF \E n \in DOMAIN value.val \cap DOMAIN result :
                        result[n] # value.val[n]
                  THEN Raise("NonConcatableExpression")
                  ELSE ScalarCombine(Tail(values), value.val @@ result)

\* variant: an index that itself subscripts an operand is always accepted
indirect_index_accepted(rec_idx, allow_indirect_addr) == rec_idx

\* map_subscript: "if rec_idx: if not self.allow_indirect_addr: raise
\* NonConcatableExpression", for the requirements rec_idx of one index
indirect_index(rec_idx, allow_indirect_addr) ==
    IF rec_idx.ok /\ rec_idx.val # <<>> /\ ~allow_indirect_addr
    THEN Raise("NonConcatableExpression")
    ELSE rec_idx

\* variant: an operand none of whose indices is the concatenated axis gets no
\* requirement
operand_without_default(name, combined_rec_indices) == combined_rec_indices

\* map_subscript: "if name not in combined_rec_indices:
\* combined_rec_indices[name] = ConcatableIfConstant()"
operand_default(name, combined_rec_indices) ==
    IF name \in DOMAIN combined_rec_indices THEN combined_rec_indices
    ELSE (name :> ConcatableIfConstant) @@ combined_rec_indices

\* _ScalarExprConcatabilityMapper(iaxis, allow_indirect_addr)(expr)
RECURSIVE _ScalarExprConcatabilityMapper(_, _, _)
_ScalarExprConcatabilityMapper(expr, iaxis, allow_indirect_addr) ==
    CASE expr.k = "Constant" -> Ok(<<>>)
      [] expr.k = "Variable" ->
            IF expr.name = ElwIndexName(iaxis)
            THEN Raise("NonConcatableExpression")
            ELSE Ok(<<>>)
      [] expr.k = "Sum" ->
            ScalarCombine(
                [i \in DOMAIN expr.children |->
                    _ScalarExprConcatabilityMapper(expr.children[i], iaxis,
                                                   allow_indirect_addr)],
                <<>>)
      [] expr.k = "Reduce" ->
            _ScalarExprConcatabilityMapper(expr.inner_expr, iaxis,
                                           allow_indirect_addr)
      [] expr.k = "Subscript" ->
            LET name == expr.aggregate
                rec_indices ==
                    [j \in DOMAIN expr.index_tuple |->
                        LET idx == expr.index_tuple[j]
                        IN  IF idx = Variable(ElwIndexName(iaxis))
                            THEN Ok((name :> ConcatableAlongAxis(j - 1)))
                            ELSE LET rec_idx ==
                                        _ScalarExprConcatabilityMapper(
                                            idx, iaxis, allow_indirect_addr)
                                 IN  indirect_index(rec_idx,
                                                    allow_indirect_addr)]
                combined_rec_indices == ScalarCombine(rec_indices, <<>>)
            IN  IF ~combined_rec_indices.ok THEN combined_rec_indices
                ELSE Ok(operand_default(name, combined_rec_indices.val))

_get_binding_to_concatenatability(expr, iaxis, allow_indirect_addr) ==
    _ScalarExprConcatabilityMapper(expr, iaxis, allow_indirect_addr)

(***************************************************************************)
(* Call concatenation: constraints a concatenated expression puts on the   *)
(* inputs of the function body                                             *)
(***************************************************************************)
_InputConcatabilityGetterAcc(seen_inputs, input_concatability) ==
    [seen_inputs |-> seen_inputs, input_concatability |-> input_concatability]

\* the zip(operand_concatabilities, operand_accs, strict=True) loop of
\* _combine_input_accs for one out_concat, from operand i on:
\* "ok" with the inputs' requirements, "no" when the operands disagree,
\* "raise" when the two tuples differ in length
RECURSIVE CombineOperands(_, _, _, _)
CombineOperands(operand_concatabilities, operand_accs, i, input_concatability) ==
    IF i > Len(operand_concatabilities) /\ i > Len(operand_accs)
    THEN [st |-> "ok", val |-> input_concatability]
    ELSE IF i > Len(operand_concatabilities) \/ i > Len(operand_accs)
    THEN [st |-> "raise"]
    ELSE LET operand_concatability == operand_concatabilities[i]
             operand_acc == operand_accs[i]
         IN  IF operand_concatability \notin DOMAIN operand_acc.input_concatability
             THEN [st |-> "no"]
             ELSE LET new == operand_acc.input_concatability[operand_concatability]
                  IN  IF \E input_arg \in DOMAIN new \cap DOMAIN input_concatability :
                            input_concatability[input_arg] # new[input_arg]
                      THEN [st |-> "no"]
                      ELSE CombineOperands(operand_concatabilities, operand_accs,
                                           i + 1, input_concatability @@ new)

_combine_input_accs(operand_accs, concat_to_operand_concatabilities) ==
    LET seen_inputs == UNION {operand_accs[i].seen_inputs : i \in DOMAIN operand_accs}
        per(out_concat) ==
            CombineOperands(concat_to_operand_concatabilities[out_concat],
                            operand_accs, 1, <<>>)
        out_concats == DOMAIN concat_to_operand_concatabilities
    IN  IF \E out_concat \in out_concats : per(out_concat).st = "raise"
        THEN Raise("ValueError")
        ELSE Ok(_InputConcatabilityGetterAcc(
                    seen_inputs,
                    [out_concat \in {c \in out_concats : per(c).st = "ok"} |->
                        per(out_concat).val]))

\* tuple(concat for _, concat in sorted(bnd_name_to_concat.items()))
SortedConcats(bnd_name_to_concat) ==
    LET names == SelectSeq(BindingOrder, LAMBDA n : n \in DOMAIN bnd_name_to_concat)
    IN  [i \in DOMAIN names |-> bnd_name_to_concat[names[i]]]

\* the "for ary in (expr,) + exprs_from_other_calls" loop of
\* _map_index_lambda_like for one iaxis: <<>> while no entry was written,
\* <<tuple>> for the entry written last
RECURSIVE AxisOperandConcats(_, _, _, _)
AxisOperandConcats(arys, iaxis, allow_indirect_addr, cur) ==
    IF arys = <<>> THEN cur
    ELSE LET ary == Head(arys)
         IN  IF ary.shape[iaxis + 1] = 1
             THEN AxisOperandConcats(Tail(arys), iaxis, allow_indirect_addr, cur)
             ELSE LET bnd_name_to_concat ==
                          _get_binding_to_concatenatability(ary.expr, iaxis,
                                                            allow_indirect_addr)
                  IN  IF ~bnd_name_to_concat.ok THEN cur
                      ELSE AxisOperandConcats(
                               Tail(arys), iaxis, allow_indirect_addr,
                               <<SortedConcats(bnd_name_to_concat.val)>>)

\* _InputConcatabilityGetter()(expr, *exprs_from_other_calls)
RECURSIVE _InputConcatabilityGetter(_, _)
_InputConcatabilityGetter(expr, exprs_from_other_calls) ==
    CASE expr.k = "Placeholder" ->
            Ok(_InputConcatabilityGetterAcc(
                {expr},
                [c \in {ConcatableAlongAxis(idim) : idim \in 0..(ndim(expr) - 1)}
                       \cup {ConcatableIfConstant} |-> (expr :> c)]))
      [] expr.k = "IndexLambda" ->
            LET names == SortedBindings(expr)
                input_accs ==
                    [i \in DOMAIN names |->
                        _InputConcatabilityGetter(
                            expr.bindings[names[i]],
                            [j \in DOMAIN exprs_from_other_calls |->
                                exprs_from_other_calls[j].bindings[names[i]]])]
                scan(iaxis) ==
                    AxisOperandConcats(<<expr>> \o exprs_from_other_calls,
                                       iaxis, FALSE, <<>>)
                axes == {iaxis \in 0..(ndim(expr) - 1) : scan(iaxis) # <<>>}
                expr_concat_to_input_concats ==
                    [c \in {ConcatableAlongAxis(iaxis) : iaxis \in axes}
                           \cup {ConcatableIfConstant} |->
                        IF c = ConcatableIfConstant
                        THEN [i \in DOMAIN names |-> ConcatableIfConstant]
                        ELSE scan(c.axis)[1]]
            IN  IF \E i \in DOMAIN input_accs : ~input_accs[i].ok
                THEN input_accs[CHOOSE i \in DOMAIN input_accs :
                                    /\ ~input_accs[i].ok
                                    /\ \A j \in 1..(i - 1) : input_accs[j].ok]
                ELSE _combine_input_accs(
                         [i \in DOMAIN input_accs |-> input_accs[i].val],
                         expr_concat_to_input_concats)
      [] expr.k = "NamedCallResult" -> Raise("NotImplementedError")

FunctionConcatenability(output_to_concatenatability, input_to_concatenatability) ==
    [output_to_concatenatability |-> output_to_concatenatability,
     input_to_concatenatability |-> input_to_concatenatability]

\* _combine_named_result_accs_simple; candidate_concat_axes is a frozenset,
\* axis_order is the order in which the for loop happens to visit it
_combine_named_result_accs_simple(named_result_accs, axis_order) ==
    LET accs == Range(named_result_accs)
        input_args == UNION {acc.seen_inputs : acc \in accs}
        valid(i_concat_axis) ==
            /\ \A acc \in accs : i_concat_axis \in DOMAIN acc.input_concatability
            /\ \A acc \in accs :
                 \A input_arg \in DOMAIN acc.input_concatability[i_concat_axis] :
                    LET i_input_axis ==
                            acc.input_concatability[i_concat_axis][input_arg]
                    IN  \/ i_input_axis = i_concat_axis
                        \/ i_input_axis = ConcatableIfConstant
        plan(i_concat_axis) ==
            FunctionConcatenability(
                [name \in DOMAIN named_result_accs |-> i_concat_axis],
                [name \in {pl.name : pl \in {a \in input_args : a.k = "Placeholder"}}
                    |-> i_concat_axis])
        chosen == SelectSeq(axis_order, valid)
    IN  [i \in DOMAIN chosen |-> plan(chosen[i])]

candidate_concat_axes(named_result_accs) ==
    UNION {DOMAIN acc.input_concatability : acc \in Range(named_result_accs)}

(***************************************************************************)
(* Call concatenation: nodes built by the rewrite                          *)
(***************************************************************************)
\* a FunctionDefinition tagged with FunctionIdentifier(fid)
FunctionDefinitionWithId(parameters, returns, fid) ==
    [k |-> "FunctionDefinition", parameters |-> parameters,
     returns |-> returns, tags |-> {fid}]

\* pytato.concatenate(arrays, axis): the axis lengths add up along axis, the
\* other components are those of the first array
Concatenate(arrays, axis, tags) ==
    [k |-> "Concatenate", arrays |-> arrays, axis |-> axis,
     shape |-> [d \in DOMAIN ShapeOf(arrays[1]) |->
                   IF d = axis + 1
                   THEN SeqSum([i \in DOMAIN arrays |-> ShapeOf(arrays[i])[d]])
                   ELSE ShapeOf(arrays[1])[d]],
     tags |-> tags]

Min(a, b) == IF a <= b THEN a ELSE b
Max(a, b) == IF a >= b THEN a ELSE b

\* ary[:, ..., start:stop, ..., :]: a BasicIndex whose slice is normalised
\* against the length of the axis, as slice.indices does
BasicIndex(array, axis, start, stop, tags) ==
    LET len == ShapeOf(array)[axis + 1]
        nstart == Min(start, len)
        nstop == Min(stop, len)
    IN  [k |-> "BasicIndex", array |-> array, axis |-> axis,
         start |-> nstart, stop |-> nstop,
         shape |-> [d \in DOMAIN ShapeOf(array) |->
                       IF d = axis + 1 THEN Max(0, nstop - nstart)
                       ELSE ShapeOf(array)[d]],
         tags |-> tags]

\* _InputConcatenator.__call__
_InputConcatenator(arrays, axis) == Concatenate(arrays, axis, {"ImplStored"})

\* _OutputSlicer._get_slice
_get_slice(ary, axis, start_idx, end_idx) ==
    BasicIndex(ary, axis, start_idx, end_idx, {"ImplStored"})

\* end_indices[islice - 1] and start_indices[islice - 1] of _OutputSlicer.__call__
RECURSIVE end_indices(_, _)
end_indices(slice_sizes, islice) ==
    IF islice = 1 THEN slice_sizes[1]
    ELSE end_indices(slice_sizes, islice - 1) + slice_sizes[islice]
start_indices(slice_sizes, islice) ==
    IF islice = 1 THEN 0 ELSE end_indices(slice_sizes, islice - 1)

_OutputSlicer_equal_sizes(ary, axis, slice_sizes) ==
    [islice \in DOMAIN slice_sizes |->
        _get_slice(ary, axis, (islice - 1) * slice_sizes[1],
                   islice * slice_sizes[1])]
_OutputSlicer(ary, axis, slice_sizes) ==
    [islice \in DOMAIN slice_sizes |->
        _get_slice(ary, axis, start_indices(slice_sizes, islice),
                   end_indices(slice_sizes, islice))]

(***************************************************************************)
(* Call concatenation: validation of a plan against the call sites         *)
(***************************************************************************)
_have_same_axis_length(arrays, iaxis) ==
    \A i \in DOMAIN arrays :
        ShapeOf(arrays[i])[iaxis + 1] = ShapeOf(arrays[1])[iaxis + 1]

_have_same_axis_length_except(arrays, iaxis) ==
    LET nd == Len(ShapeOf(arrays[1]))
    IN  /\ \A i \in DOMAIN arrays : Len(ShapeOf(arrays[i])) = nd
        /\ \A idim \in 0..(nd - 1) :
              idim # iaxis => _have_same_axis_length(arrays, idim)

\* TRUE when the check passes, FALSE when it raises _InvalidConcatenatability;
\* every array of the model has the same dtype
_verify_arrays_can_be_concated_along_axis(arrays, fields_that_must_be_same, iaxis) ==
    /\ _have_same_axis_length_except(arrays, iaxis)
    /\ "name" \in fields_that_must_be_same =>
          Cardinality({arrays[i].name : i \in DOMAIN arrays}) = 1

_verify_arrays_same(arrays) == Cardinality(Range(arrays)) = 1

_get_concatenated_shape_of_template(arrays, iaxis) == arrays[1].shape
_get_concatenated_shape(arrays, iaxis) ==
    LET concatenated_axis_length ==
            SeqSum([i \in DOMAIN arrays |-> arrays[i].shape[iaxis + 1]])
        template_ary == arrays[1]
    IN  [idim \in DOMAIN template_ary.shape |->
            IF idim - 1 # iaxis THEN template_ary.shape[idim]
            ELSE concatenated_axis_length]

\* _ConcatabilityCollector(current_stack=()): ary_to_concatenatability, the
\* cache keys of the nodes already walked, and the exception raised, if any
NewConcatabilityCollector ==
    [ary_to_concatenatability |-> <<>>, visited |-> {}, exc |-> "none"]

\* the key under which the collector of the stack () records an array
OnStack(expr) == <<<<>>, expr>>

_record_concatability(collector, expr, concatenatability) ==
    IF OnStack(expr) \in DOMAIN collector.ary_to_concatenatability
    THEN [collector EXCEPT !.exc = "AssertionError"]
    ELSE [collector EXCEPT !.ary_to_concatenatability =
                               (OnStack(expr) :> concatenatability) @@ @]

RECURSIVE _ConcatabilityCollector(_, _, _, _)
RECURSIVE CollectBindings(_, _, _, _, _)
\* self.rec on the bindings names[1], names[2], ... of idx_lambda, each with
\* the concatenatability bnd_concat gives it
CollectBindings(collector, names, idx_lambda, bnd_concat, others) ==
    IF names = <<>> THEN collector
    ELSE CollectBindings(
             _ConcatabilityCollector(
                 collector, idx_lambda.bindings[Head(names)],
                 bnd_concat[Head(names)],
                 [j \in DOMAIN others |-> others[j].bindings[Head(names)]]),
             Tail(names), idx_lambda, bnd_concat, others)
_ConcatabilityCollector(collector, expr, concatenatability, exprs_from_other_calls) ==
    LET cache_key == <<expr, concatenatability, exprs_from_other_calls>>
        arys == <<expr>> \o exprs_from_other_calls
        invalid(c) == [c EXCEPT !.exc = "_InvalidConcatenatability"]
        visited(c) == IF c.exc # "none" THEN c
                      ELSE [c EXCEPT !.visited = @ \cup {cache_key}]
    IN  IF collector.exc # "none" \/ cache_key \in collector.visited
        THEN collector
        ELSE CASE expr.k = "Placeholder" ->
                IF concatenatability = ConcatableIfConstant
                THEN IF _verify_arrays_same(arys)
                     THEN visited(_record_concatability(collector, expr,
                                                        concatenatability))
                     ELSE invalid(collector)
                ELSE IF _verify_arrays_can_be_concated_along_axis(
                            arys, {"dtype", "name"}, concatenatability.axis)
                     THEN visited(_record_concatability(collector, expr,
                                                        concatenatability))
                     ELSE invalid(collector)
          [] expr.k = "IndexLambda" ->
                LET c1 == _record_concatability(collector, expr, concatenatability)
                IN  IF c1.exc # "none" THEN c1
                    ELSE IF concatenatability = ConcatableIfConstant
                    THEN IF ~_verify_arrays_same(arys) THEN invalid(c1)
                         ELSE visited(CollectBindings(
                                  c1, SortedBindings(expr), expr,
                                  [n \in DOMAIN expr.bindings |-> ConcatableIfConstant],
                                  exprs_from_other_calls))
                    ELSE IF ~_verify_arrays_can_be_concated_along_axis(
                                 arys, {"dtype"}, concatenatability.axis)
                    THEN invalid(c1)
                    ELSE IF Cardinality(
                                {arys[i].expr : i \in
                                    {j \in DOMAIN arys :
                                        arys[j].shape[concatenatability.axis + 1] # 1}})
                            # 1
                    THEN invalid(c1)
                    ELSE LET long == {j \in DOMAIN arys :
                                        arys[j].shape[concatenatability.axis + 1] > 1}
                             ary == IF long = {} THEN expr
                                    ELSE arys[CHOOSE j \in long :
                                                \A l \in long : j <= l]
                             bnd_name_to_concat ==
                                 _get_binding_to_concatenatability(
                                     ary.expr, concatenatability.axis, FALSE)
                         IN  IF ~bnd_name_to_concat.ok
                             THEN [c1 EXCEPT !.exc = bnd_name_to_concat.exc]
                             ELSE visited(CollectBindings(
                                     c1,
                                     SelectSeq(BindingOrder,
                                         LAMBDA n : n \in DOMAIN bnd_name_to_concat.val),
                                     expr, bnd_name_to_concat.val,
                                     exprs_from_other_calls))

\* _get_valid_concatenatability_constraints_simple(template_call, *other_calls):
\* the accumulators of the returns, then the plans; axis_order is the
\* iteration order of the candidate axes
output_accs(call_sites) ==
    [name \in DOMAIN call_sites[1].function.returns |->
        _InputConcatabilityGetter(
            call_sites[1].function.returns[name],
            [j \in 1..(Len(call_sites) - 1) |->
                call_sites[j + 1].function.returns[name]])]

PlansOfAccs(accs, axis_order) ==
    IF \E name \in DOMAIN accs : ~accs[name].ok
    THEN Raise(accs[CHOOSE name \in DOMAIN accs : ~accs[name].ok].exc)
    ELSE Ok(_combine_named_result_accs_simple(
                [name \in DOMAIN accs |-> accs[name].val], axis_order))

_get_valid_concatenatability_constraints_simple(call_sites, axis_order) ==
    PlansOfAccs(output_accs(call_sites), axis_order)

\* the candidate axes of _combine_named_result_accs_simple for these call sites
CandidateAxesOfAccs(accs) ==
    IF \E name \in DOMAIN accs : ~accs[name].ok THEN {}
    ELSE candidate_concat_axes([name \in DOMAIN accs |-> accs[name].val])
candidate_concat_axes_of(call_sites) == CandidateAxesOfAccs(output_accs(call_sites))

\* one iteration of the loop of _get_ary_to_concatenatabilities: the collector
\* after the checks of the bindings and of the function bodies
ValidatePlan(call_sites, fn_concatenatability) ==
    LET template_call == call_sites[1]
        other_calls == Tail(call_sites)
        inputs == fn_concatenatability.input_to_concatenatability
        outputs_ == fn_concatenatability.output_to_concatenatability
        bindings_of(name) == [i \in DOMAIN call_sites |-> call_sites[i].bindings[name]]
        input_ok(name) ==
            IF inputs[name] = ConcatableIfConstant
            THEN _verify_arrays_same(bindings_of(name))
            ELSE _verify_arrays_can_be_concated_along_axis(
                     bindings_of(name), {}, inputs[name].axis)
        RECURSIVE walk(_, _)
        walk(collector, names) ==
            IF names = {} THEN collector
            ELSE LET name == CHOOSE n \in names : TRUE
                 IN  walk(_ConcatabilityCollector(
                              collector,
                              template_call.function.returns[name],
                              outputs_[name],
                              [j \in DOMAIN other_calls |->
                                  other_calls[j].function.returns[name]]),
                          names \ {name})
    IN  IF \E name \in DOMAIN inputs : ~input_ok(name)
        THEN [NewConcatabilityCollector EXCEPT !.exc = "_InvalidConcatenatability"]
        ELSE walk(NewConcatabilityCollector, DOMAIN outputs_)

(***************************************************************************)
(* Call concatenation: plan selection and rewrite of one batch             *)
(***************************************************************************)
\* the permutations of the finite set S: the orders in which a for loop may
\* visit a set whose iteration order follows the hashes of its elements
Permutations_(S) == {order \in InjSeqs(S) : Len(order) = Cardinality(S)}

\* the collectors of the candidate plans, in the order of the plans
PlanCollectors(call_sites, fn_concatenatabilities) ==
    [i \in DOMAIN fn_concatenatabilities |->
        ValidatePlan(call_sites, fn_concatenatabilities[i])]

\* the position in collectors, after position from, of the first plan that
\* is not discarded with _InvalidConcatenatability; 0 when there is none
NextPlan(collectors, from) ==
    LET later == {i \in DOMAIN collectors :
                    i > from /\ collectors[i].exc # "_InvalidConcatenatability"}
    IN  IF later = {} THEN 0 ELSE CHOOSE i \in later : \A j \in later : i <= j

\* the generator as _get_replacement_map_post_concatenating consumes it:
\* next() takes the first valid plan, a second next() looks for another one
\* to warn about several possibilities
TakePlans(collectors) ==
    LET first == NextPlan(collectors, 0)
        second == NextPlan(collectors, first)
    IN  IF first = 0 THEN Raise("ValueError")
        ELSE IF collectors[first].exc # "none"
        THEN Raise(collectors[first].exc)
        ELSE IF second # 0 /\ collectors[second].exc # "none"
        THEN Raise(collectors[second].exc)
        ELSE Ok([ary_to_concatenatability |->
                     collectors[first].ary_to_concatenatability,
                 multiple |-> second # 0])

ValidatePlans(call_sites, fn_concatenatabilities) ==
    IF ~fn_concatenatabilities.ok THEN fn_concatenatabilities
    ELSE TakePlans(PlanCollectors(call_sites, fn_concatenatabilities.val))

_get_ary_to_concatenatabilities(call_sites, axis_order) ==
    ValidatePlans(call_sites,
                  _get_valid_concatenatability_constraints_simple(call_sites,
                                                                  axis_order))

\* _FunctionConcatenator(current_stack=(), ...)(expr, exprs_from_other_calls)
RECURSIVE _FunctionConcatenator(_, _, _)
_FunctionConcatenator(ary_to_concatenatability, expr, exprs_from_other_calls) ==
    LET concat == ary_to_concatenatability[OnStack(expr)]
    IN  IF concat = ConcatableIfConstant THEN expr
        ELSE CASE expr.k = "Placeholder" ->
                    [expr EXCEPT !.shape =
                        _get_concatenated_shape(<<expr>> \o exprs_from_other_calls,
                                                concat.axis)]
               [] expr.k = "IndexLambda" ->
                    [expr EXCEPT
                        !.bindings =
                            [bnd_name \in DOMAIN expr.bindings |->
                                _FunctionConcatenator(
                                    ary_to_concatenatability,
                                    expr.bindings[bnd_name],
                                    [j \in DOMAIN exprs_from_other_calls |->
                                        exprs_from_other_calls[j].bindings[bnd_name]])],
                        !.shape =
                            _get_concatenated_shape(<<expr>> \o exprs_from_other_calls,
                                                    concat.axis)]

\* FunctionDefinition.get_placeholder reads the placeholders off the returns:
\* the parameters map of a function with the given returns
PlaceholdersOf(parameters, returns) ==
    LET all == UNION {InputGatherer(returns[name]) : name \in DOMAIN returns}
    IN  [name \in DOMAIN parameters |->
            IF \E pl \in all : pl.name = name
            THEN CHOOSE pl \in all : pl.name = name
            ELSE parameters[name]]

\* FunctionDefinition(function.parameters, function.return_type, returns,
\* tags=function.tags)
WithReturns(function, returns) ==
    [function EXCEPT !.returns = returns,
                     !.parameters = PlaceholdersOf(@, returns)]

\* the new call of _get_replacement_map_post_concatenating: the concatenated
\* function body called on the concatenated bindings
NewCall(call_sites, ary_to_concatenatability) ==
    LET template_call_site == call_sites[1]
        other_call_sites == Tail(call_sites)
        template_function == template_call_site.function
        template_returns == template_function.returns
        template_bindings == template_call_site.bindings
        new_returns ==
            [output_name \in DOMAIN template_returns |->
                _FunctionConcatenator(
                    ary_to_concatenatability, template_returns[output_name],
                    [j \in DOMAIN other_call_sites |->
                        other_call_sites[j].function.returns[output_name]])]
        new_call_bindings ==
            [param_name \in DOMAIN template_bindings |->
                LET param_concat ==
                        ary_to_concatenatability[
                            OnStack(get_placeholder(template_function, param_name))]
                IN  IF param_concat = ConcatableIfConstant
                    THEN template_bindings[param_name]
                    ELSE _InputConcatenator(
                             [i \in DOMAIN call_sites |->
                                 call_sites[i].bindings[param_name]],
                             param_concat.axis)]
    IN  Call(WithReturns(template_function, new_returns), new_call_bindings,
             template_call_site.tags)

\* the result of _get_replacement_map_post_concatenating: the slices of the
\* returns of new_call, or the returns themselves, that replace the old
\* named call results
Replacements(call_sites, ary_to_concatenatability, new_call) ==
    LET template_returns == call_sites[1].function.returns
        replacement(output_name, i) ==
            LET concat == ary_to_concatenatability[
                              OnStack(template_returns[output_name])]
                slice_sizes ==
                    [j \in DOMAIN call_sites |->
                        ShapeOf(NamedCallResult(call_sites[j], output_name))
                            [concat.axis + 1]]
            IN  IF concat = ConcatableIfConstant
                THEN NamedCallResult(new_call, output_name)
                ELSE _OutputSlicer(NamedCallResult(new_call, output_name),
                                   concat.axis, slice_sizes)[i]
        olds == {<<output_name, i>> : output_name \in DOMAIN template_returns,
                                      i \in DOMAIN call_sites}
        old_of(oi) == NamedCallResult(call_sites[oi[2]], oi[1])
    IN  [old \in {old_of(oi) : oi \in olds} |->
            LET oi == CHOOSE x \in olds : old_of(x) = old
            IN  replacement(oi[1], oi[2])]

RewriteBatch(call_sites, chosen, new_call) ==
    [ary_to_concatenatability |-> chosen.ary_to_concatenatability,
     multiple |-> chosen.multiple,
     new_call |-> new_call,
     result |-> Replacements(call_sites, chosen.ary_to_concatenatability, new_call)]

RewriteIfValid(call_sites, chosen) ==
    IF ~chosen.ok THEN chosen
    ELSE Ok(RewriteBatch(call_sites, chosen.val,
                         NewCall(call_sites, chosen.val.ary_to_concatenatability)))

\* _get_replacement_map_post_concatenating(call_sites, ...): the plan chosen,
\* the new call and the mapping from the old named call results to their
\* replacements
_get_replacement_map_post_concatenating(call_sites, axis_order) ==
    RewriteIfValid(call_sites,
                   _get_ary_to_concatenatabilities(call_sites, axis_order))

(***************************************************************************)
(* Call concatenation: call sites, batching, and the driver                *)
(***************************************************************************)
CallSiteLocation(call, stack) == [call |-> call, stack |-> stack]

\* the arrays a node of the caller's graph is built from
Predecessors(expr) ==
    CASE expr.k = "Placeholder" -> {}
      [] expr.k = "IndexLambda" -> Range(expr.bindings)
      [] expr.k = "Concatenate" -> Range(expr.arrays)
      [] expr.k = "BasicIndex" -> {expr.array}
      [] expr.k = "DictOfNamedArrays" -> Range(expr.data)
      [] expr.k = "NamedCallResult" -> {expr.container}

\* CallSiteDependencyCollector(stack)(expr): the call sites expr depends on
RECURSIVE CallSiteDependencyCollector(_, _)
CallSiteDependencyCollector(stack, expr) ==
    IF expr.k = "Call"
    THEN {CallSiteLocation(expr, stack)}
         \cup UNION {CallSiteDependencyCollector(stack, expr.bindings[n]) :
                        n \in DOMAIN expr.bindings}
         \cup UNION {CallSiteDependencyCollector(Append(stack, expr),
                                                 expr.function.returns[n]) :
                        n \in DOMAIN expr.function.returns}
    ELSE UNION {CallSiteDependencyCollector(stack, pred) :
                    pred \in Predecessors(expr)}

\* CallSiteDependencyCollector.call_site_to_dep_call_sites after walking expr
call_site_to_dep_call_sites(expr) ==
    [cs \in CallSiteDependencyCollector(<<>>, expr) |->
        CallSiteDependencyCollector(cs.stack, cs.call) \ {cs}]

\* collect_nodes_of_type(ret, Call) is not empty
RECURSIVE HasNestedCall(_)
HasNestedCall(expr) ==
    \/ expr.k = "Call"
    \/ \E pred \in Predecessors(expr) : HasNestedCall(pred)

\* SimilarityComparer: equality up to the lengths of the axes
RECURSIVE SimilarityComparer(_, _)
SimilarityComparer(expr1, expr2) ==
    /\ expr1.k = expr2.k
    /\ ndim(expr1) = ndim(expr2)
    /\ expr1.tags = expr2.tags
    /\ CASE expr1.k = "Placeholder" -> expr1.name = expr2.name
         [] expr1.k = "IndexLambda" ->
                /\ expr1.expr = expr2.expr
                /\ DOMAIN expr1.bindings = DOMAIN expr2.bindings
                /\ \A n \in DOMAIN expr1.bindings :
                      SimilarityComparer(expr1.bindings[n], expr2.bindings[n])

\* get_axis0_len(cs); -1 stands for the failure of its assertion
get_axis0_len(cs) ==
    LET returns == cs.call.function.returns
        lens == {returns[name].shape[1] : name \in DOMAIN returns}
    IN  IF Cardinality(lens) = 1 THEN CHOOSE l \in lens : TRUE ELSE -1

\* variant: the template call site is not similar to itself
similar_call_sites_without_template(ready_call_sites, template_call_site) ==
    LET template_fn == template_call_site.call.function
    IN  {cs \in ready_call_sites \ {template_call_site} :
            /\ DOMAIN cs.call.function.returns = DOMAIN template_fn.returns
            /\ \A name \in DOMAIN template_fn.returns :
                  SimilarityComparer(cs.call.function.returns[name],
                                     template_fn.returns[name])
            /\ cs.stack = template_call_site.stack}

\* the call sites of ready_call_sites similar to template_call_site
similar_call_sites(ready_call_sites, template_call_site) ==
    LET template_fn == template_call_site.call.function
    IN  {cs \in ready_call_sites :
            /\ DOMAIN cs.call.function.returns = DOMAIN template_fn.returns
            /\ \A name \in DOMAIN template_fn.returns :
                  SimilarityComparer(cs.call.function.returns[name],
                                     template_fn.returns[name])
            /\ cs.stack = template_call_site.stack}

\* sorted(similar, key=get_axis0_len): sorted is stable, so call sites of
\* equal length stay in the order in which the frozenset yields them
SortedByAxis0Len(similar) ==
    {order \in Permutations_(similar) :
        \A i \in 1..(Len(order) - 1) :
            get_axis0_len(order[i]) <= get_axis0_len(order[i + 1])}

\* variant: a call site is ready when no unbatched call site depends on it
ReadyCallSites_dependents_first(unbatched_call_sites, deps) ==
    {cs \in unbatched_call_sites :
        \A other \in unbatched_call_sites : cs \notin deps[other]}

\* ready_call_sites: the unbatched call sites none of whose dependencies is
\* still unbatched
ReadyCallSites(unbatched_call_sites, deps) ==
    {cs \in unbatched_call_sites : deps[cs] \cap unbatched_call_sites = {}}

\* the while loop of concatenate_calls: the possible values of
\* call_site_batches, or the exception raised.  template_call_site is
\* next(iter(ready_call_sites)), any ready call site; it is used to form
\* similar_call_sites only, so the loop branches on the sets it can form
RECURSIVE BatchLoop(_, _, _)
BatchLoop(unbatched_call_sites, deps, call_site_batches) ==
    IF unbatched_call_sites = {} THEN {Ok(call_site_batches)}
    ELSE LET ready_call_sites == ReadyCallSites(unbatched_call_sites, deps)
         IN  IF ready_call_sites = {} THEN {Raise("ValueError")}
             ELSE UNION {
                 IF similar = {} THEN {Raise("ValueError")}
                 ELSE IF \E cs \in similar : get_axis0_len(cs) = -1
                 THEN {Raise("AssertionError")}
                 ELSE UNION {
                     BatchLoop(unbatched_call_sites \ similar, deps,
                               Append(call_site_batches,
                                      [call_sites |-> batch_call_sites]))
                     : batch_call_sites \in SortedByAxis0Len(similar)}
                 : similar \in
                     {similar_call_sites(ready_call_sites, template_call_site) :
                         template_call_site \in ready_call_sites}}

\* _NamedCallResultReplacerPostConcatenate(replacement_map, current_stack)(expr)
RECURSIVE _NamedCallResultReplacerPostConcatenate(_, _, _)
_NamedCallResultReplacerPostConcatenate(replacement_map, current_stack, expr) ==
    LET rec(e) == _NamedCallResultReplacerPostConcatenate(replacement_map,
                                                          current_stack, e)
        default(ncr) == NamedCallResult(rec(ncr.container), ncr.name)
    IN  CASE expr.k = "Placeholder" -> expr
          [] expr.k = "IndexLambda" ->
                [expr EXCEPT !.bindings = [n \in DOMAIN @ |-> rec(@[n])]]
          [] expr.k = "Concatenate" ->
                Concatenate([i \in DOMAIN expr.arrays |-> rec(expr.arrays[i])],
                            expr.axis, expr.tags)
          [] expr.k = "BasicIndex" ->
                BasicIndex(rec(expr.array), expr.axis, expr.start, expr.stop,
                           expr.tags)
          [] expr.k = "DictOfNamedArrays" ->
                [expr EXCEPT !.data = [n \in DOMAIN @ |-> rec(@[n])]]
          [] expr.k = "Call" ->
                [expr EXCEPT
                    !.function =
                        [@ EXCEPT !.returns =
                            [n \in DOMAIN @ |->
                                _NamedCallResultReplacerPostConcatenate(
                                    replacement_map, Append(current_stack, expr),
                                    @[n])]],
                    !.bindings = [n \in DOMAIN @ |-> rec(@[n])]]
          [] expr.k = "NamedCallResult" ->
                IF <<expr, current_stack>> \in DOMAIN replacement_map
                THEN LET new_expr == replacement_map[<<expr, current_stack>>]
                     IN  IF new_expr.k = "NamedCallResult"
                         THEN default(new_expr)
                         ELSE rec(new_expr)
                ELSE default(expr)

\* [cs.call for cs in call_sites]
BatchCalls(batch) == [i \in DOMAIN batch.call_sites |-> batch.call_sites[i].call]

\* what the validation of each candidate plan of call_sites ended in, in
\* the order of the plans: the exception, or "none" and the plan validated
CandidateOutcomes(call_sites, axis_order) ==
    LET plans == _get_valid_concatenatability_constraints_simple(call_sites,
                                                                 axis_order)
        outcome(collector) ==
            [exc |-> collector.exc,
             ary_to_concatenatability |-> collector.ary_to_concatenatability]
    IN  IF ~plans.ok THEN <<>>
        ELSE [i \in DOMAIN plans.val |->
                 outcome(ValidatePlan(call_sites, plans.val[i]))]

\* the "for ibatch, call_sites in enumerate(call_site_batches)" loop: the
\* possible logs of the batches together with the replacement_map built
RECURSIVE ProcessBatches(_, _, _, _, _)
RECURSIVE AfterRewrite(_, _, _, _, _, _)
\* replacement_map.update(...) with the rewrite of the first batch, then the
\* batches after it
AfterRewrite(rewrite, call_site_batches, replacement_map, log, entry, opts) ==
    IF ~rewrite.ok
    THEN {[exc |-> rewrite.exc, replacement_map |-> replacement_map,
           log |-> Append(log, entry @@ [skipped |-> FALSE, exc |-> rewrite.exc])]}
    ELSE ProcessBatches(
             Tail(call_site_batches),
             [key \in {<<old, entry.call_sites[1].stack>> :
                           old \in DOMAIN rewrite.val.result}
                 |-> rewrite.val.result[key[1]]] @@ replacement_map,
             Append(log, entry @@ [skipped |-> FALSE, exc |-> "none"]
                               @@ rewrite.val),
             entry.fid, opts)

\* variant: a batch with fewer than two call sites is skipped silently
\* whatever the keyword arguments
not_enough_calls_ignored(call_site_batches, replacement_map, log, fid, opts) ==
    ProcessBatches(
        Tail(call_site_batches), replacement_map,
        Append(log, [fid |-> fid,
                     call_sites |-> Head(call_site_batches).call_sites,
                     skipped |-> TRUE, exc |-> "none", warned |-> FALSE]),
        fid, opts)

\* the "if len(call_sites) <= 1" branch of the loop, for the first batch
not_enough_calls(call_site_batches, replacement_map, log, fid, opts) ==
    IF opts.err_if_no_calls
    THEN {[exc |-> "ValueError", replacement_map |-> replacement_map,
           log |-> Append(log,
                          [fid |-> fid,
                           call_sites |-> Head(call_site_batches).call_sites,
                           skipped |-> TRUE, exc |-> "ValueError",
                           warned |-> FALSE])]}
    ELSE ProcessBatches(
             Tail(call_site_batches), replacement_map,
             Append(log, [fid |-> fid,
                          call_sites |-> Head(call_site_batches).call_sites,
                          skipped |-> TRUE, exc |-> "none",
                          warned |-> opts.warn_if_no_calls]),
             fid, opts)

ProcessBatches(call_site_batches, replacement_map, log, fid, opts) ==
    IF call_site_batches = <<>>
    THEN {[exc |-> "none", replacement_map |-> replacement_map, log |-> log]}
    ELSE IF Len(Head(call_site_batches).call_sites) <= 1
    THEN not_enough_calls(call_site_batches, replacement_map, log, fid, opts)
    ELSE UNION {
             AfterRewrite(
                 _get_replacement_map_post_concatenating(
                     BatchCalls(Head(call_site_batches)), axis_order),
                 call_site_batches, replacement_map, log,
                 [fid |-> fid, call_sites |-> Head(call_site_batches).call_sites,
                  candidates |->
                      CandidateOutcomes(BatchCalls(Head(call_site_batches)),
                                        axis_order)],
                 opts)
             : axis_order \in
                 Permutations_(candidate_concat_axes_of(
                                   BatchCalls(Head(call_site_batches))))}

\* the value a driver leaves behind when it raises exc
Raised(exc) == [k |-> exc]

\* the "for fid in function_ids" loop of concatenate_calls: the results it
\* can return, each with the log of its batches.  function_ids is a set, so
\* the loop may take the identifiers in any order; Deduplicator leaves a
\* term unchanged, equal nodes being one term here
RECURSIVE FunctionIdLoop(_, _, _, _)
FunctionIdLoop(function_ids, result, log, opts) ==
    IF function_ids = {} THEN {[result |-> result, log |-> log]}
    ELSE UNION {
        LET deps == call_site_to_dep_call_sites(result)
            unbatched_call_sites ==
                {cs \in DOMAIN deps : fid \in cs.call.function.tags}
        IN  IF \E cs \in unbatched_call_sites :
                  \E n \in DOMAIN cs.call.function.returns :
                      HasNestedCall(cs.call.function.returns[n])
            THEN {[result |-> Raised("NotImplementedError"), log |-> log]}
            ELSE UNION {
                IF ~call_site_batches.ok
                THEN {[result |-> Raised(call_site_batches.exc), log |-> log]}
                ELSE UNION {
                    IF done.exc # "none"
                    THEN {[result |-> Raised(done.exc), log |-> log \o done.log]}
                    ELSE FunctionIdLoop(
                             function_ids \ {fid},
                             _NamedCallResultReplacerPostConcatenate(
                                 done.replacement_map, <<>>, result),
                             log \o done.log, opts)
                    : done \in ProcessBatches(call_site_batches.val,
                                              <<>>, <<>>, fid, opts)}
                : call_site_batches \in BatchLoop(unbatched_call_sites, deps, <<>>)}
        : fid \in function_ids}

\* concatenate_calls(expr, call_site_filter, warn_if_no_calls=...,
\* err_if_no_calls=...) with a filter that accepts every call site: the set of
\* its possible outcomes; opts holds the keyword arguments
concatenate_calls(expr, opts) ==
    LET all_call_sites == CallSiteDependencyCollector(<<>>, expr)
        function_ids ==
            {CHOOSE fid \in cs.call.function.tags : TRUE : cs \in all_call_sites}
    IN  FunctionIdLoop(function_ids, expr, <<>>, opts)

(***************************************************************************)
(* Specification of call concatenation: concatenate_calls applied to a     *)
(* graph with two or three call sites                                      *)
(***************************************************************************)
ConcatLens == {2, 3}
ConcatKinds == {"elementwise", "broadcast", "pair"}

I0 == Variable(ElwIndexName(0))
I1 == Variable(ElwIndexName(1))
\* a[_0, _1] + b[_0, _1],  a[_0, _1] + b[0, _1]  and  a[_0, _1] + a[_0, _1]
ElementwiseExpr ==
    Sum(<<Subscript("in0", <<I0, I1>>), Subscript("in1", <<I0, I1>>)>>)
BroadcastExpr ==
    Sum(<<Subscript("in0", <<I0, I1>>), Subscript("in1", <<ZeroLiteral, I1>>)>>)
DoubleExpr ==
    Sum(<<Subscript("in0", <<I0, I1>>), Subscript("in0", <<I0, I1>>)>>)
TransposedExpr ==
    Sum(<<Subscript("in0", <<I0, I1>>), Subscript("in1", <<I1, I0>>)>>)

\* the callee of kind kind whose parameter a has n rows
ConcatFn(kind, n) ==
    LET a == Placeholder("a", <<n, 2>>)
        b == Placeholder("b", IF kind = "broadcast" THEN <<2, 2>> ELSE <<n, 2>>)
        both == [in0 |-> a, in1 |-> b]
        params == [name \in {"a", "b"} |-> IF name = "a" THEN a ELSE b]
    IN  CASE kind = "elementwise" ->
                FunctionDefinitionWithId(
                    params,
                    [name \in {"r"} |-> IndexLambda(ElementwiseExpr, <<n, 2>>, both, {})],
                    "f")
          [] kind = "broadcast" ->
                FunctionDefinitionWithId(
                    params,
                    [name \in {"r"} |-> IndexLambda(BroadcastExpr, <<n, 2>>, both, {})],
                    "f")
          [] kind = "transposed" ->
                FunctionDefinitionWithId(
                    params,
                    [name \in {"r"} |-> IndexLambda(TransposedExpr, <<n, 2>>, both, {})],
                    "f")
          [] kind = "mixed" ->
                \* r = a[_0, _1] + b[_0, _1] and s = b[_0, _1] + a[0, _1]:
                \* the two returns share the parameter a
                FunctionDefinitionWithId(
                    params,
                    [name \in {"r", "s"} |->
                        IF name = "r"
                        THEN IndexLambda(ElementwiseExpr, <<n, 2>>, both, {})
                        ELSE IndexLambda(BroadcastExpr, <<n, 2>>,
                                         [in0 |-> b, in1 |-> a], {})],
                    "f")
          [] kind = "pair" ->
                FunctionDefinitionWithId(
                    params,
                    [name \in {"r", "s"} |->
                        IF name = "r"
                        THEN IndexLambda(ElementwiseExpr, <<n, 2>>, both, {})
                        ELSE IndexLambda(DoubleExpr, <<n, 2>>,
                                         [in0 |-> a], {})],
                    "g")

\* the arrays of the caller that can be bound to a parameter of shape shape
CallerArrays(shape) == {Placeholder("u", shape), Placeholder("v", shape)}

\* the call sites of ConcatFn(kind, n) on arrays of the caller
ConcatSites(kind, n) ==
    LET fn == ConcatFn(kind, n)
    IN  {Call(fn, [name \in {"a", "b"} |-> IF name = "a" THEN x ELSE y], {}) :
            x \in CallerArrays(fn.parameters["a"].shape),
            y \in CallerArrays(fn.parameters["b"].shape)}

\* the call sites of ConcatFn(kind, n) that bind both parameters to u
FirstSites(kind, n) ==
    {site \in ConcatSites(kind, n) :
        site.bindings["a"].name = "u" /\ site.bindings["b"].name = "u"}

\* the call sites of ConcatFn(kind, n) that bind the parameter b to v
SecondSites(kind, n) ==
    {site \in ConcatSites(kind, n) : site.bindings["b"].name = "v"}

\* a call site whose parameter a is bound to the result r of the call site dep
DependentSite(kind, dep) ==
    LET n == ShapeOf(NamedCallResult(dep, "r"))[1]
        fn == ConcatFn(kind, n)
    IN  Call(fn, [name \in {"a", "b"} |->
                    IF name = "a" THEN NamedCallResult(dep, "r")
                    ELSE Placeholder("v", fn.parameters["b"].shape)], {})

\* a second call site whose parameter a is bound to the result r of dep
OtherDependentSite(kind, dep) ==
    LET n == ShapeOf(NamedCallResult(dep, "r"))[1]
        fn == ConcatFn(kind, n)
    IN  Call(fn, [name \in {"a", "b"} |->
                    IF name = "a" THEN NamedCallResult(dep, "r")
                    ELSE Placeholder("u", fn.parameters["b"].shape)], {})

\* a further call site of ConcatFn(kind, n), on arrays of its own
ThirdSite(kind, n) ==
    LET fn == ConcatFn(kind, n)
    IN  Call(fn, [name \in {"a", "b"} |->
                    Placeholder("w", fn.parameters[name].shape)], {})

\* the graph whose outputs are all the results of the call sites sites
ConcatDag(sites) ==
    LET results == {NamedCallResult(sites[i], name) :
                        i \in DOMAIN sites,
                        name \in {"r", "s"}}
        used == {res \in results :
                    res.name \in DOMAIN res.container.function.returns}
        out_name(res) ==
            LET i == CHOOSE j \in DOMAIN sites : sites[j] = res.container
            IN  "o" \o ToString(i) \o res.name
    IN  DictOfNamedArrays(
            [name \in {out_name(res) : res \in used} |->
                CHOOSE res \in used : out_name(res) = name],
            {})

ConcatInit ==
    /\ \/ \E k1 \in ConcatKinds, n1, n2 \in ConcatLens :
             \E s1 \in FirstSites(k1, n1) :
                 \/ \E k2 \in ConcatKinds :
                       \E s2 \in SecondSites(k2, n2) :
                           dag = ConcatDag(<<s1, s2>>)
                 \/ dag = ConcatDag(<<s1, DependentSite(k1, s1),
                                      OtherDependentSite(k1, s1)>>)
                 \/ \E s2 \in SecondSites(k1, n2) :
                       \/ dag = ConcatDag(<<s1, s2, DependentSite(k1, s1)>>)
                       \/ \E n3 \in ConcatLens :
                             dag = ConcatDag(<<s1, s2, ThirdSite(k1, n3)>>)
       \/ \E s1 \in FirstSites("transposed", 2),
             s2 \in SecondSites("transposed", 2) :
             dag = ConcatDag(<<s1, s2>>)
       \/ \E n1, n2 \in ConcatLens :
             \E s1 \in FirstSites("mixed", n1), s2 \in SecondSites("mixed", n2) :
                 dag = ConcatDag(<<s1, s2>>)
    /\ dag_in = dag
    /\ ops = <<>>
    /\ batches = <<>>
    /\ call_opts = <<>>
    /\ pc = "idle"
    /\ orig_outputs = <<>> /\ outputs = <<>> /\ compute_order = <<>>
    /\ state = get_initial_codegen_state
    /\ emitted = <<>>
    /\ objs = <<>> /\ prep_outputs = <<>> /\ mapper = <<>>
    /\ new_outputs = <<>> /\ raised = "none" /\ loopy_calls = <<>>
    /\ namespace = <<>> /\ ns_log = <<>>
    /\ scalar_call = <<>> /\ scalar_result = <<>>

\* the keyword arguments tried: the defaults, no warning, an error
ConcatOptions ==
    {[warn_if_no_calls |-> TRUE, err_if_no_calls |-> FALSE],
     [warn_if_no_calls |-> FALSE, err_if_no_calls |-> FALSE],
     [warn_if_no_calls |-> TRUE, err_if_no_calls |-> TRUE]}

ConcatenateCalls ==
    /\ Len(ops) < MaxOps
    /\ dag.k = "DictOfNamedArrays"
    /\ \E opts \in ConcatOptions :
          /\ call_opts' = opts
          /\ \E outcome \in concatenate_calls(dag, opts) :
                /\ dag' = outcome.result
                /\ batches' = outcome.log
    /\ dag_in' = dag
    /\ ops' = Append(ops, "concatenate_calls")
    /\ UNCHANGED <<lvars, pvars>>

ConcatNext == ConcatenateCalls

SpecConcat == ConcatInit /\ [][ConcatNext]_vars

(***************************************************************************)
(* Properties of call concatenation                                        *)
(***************************************************************************)
\* the batches of the last run that were rewritten into one call
ConcatenatedBatches ==
    {i \in DOMAIN batches : ~batches[i].skipped /\ batches[i].exc = "none"}


\* how the rewrite of batch treats the return, resp. the parameter, name
ReturnConcat(batch, name) ==
    batch.ary_to_concatenatability[
        OnStack(BatchCalls(batch)[1].function.returns[name])]
ParamConcat(batch, name) ==
    batch.ary_to_concatenatability[
        OnStack(get_placeholder(BatchCalls(batch)[1].function, name))]

\* C1: for a batch S1..Sn concatenated along axis a, the replacement of
\* Si[name] is the slice of the new call's return name along a that starts at
\* the sum of the a-lengths of S1..S(i-1) and has the length of Si[name]; the
\* slices are pairwise disjoint and cover the concatenated axis exactly; the
\* bindings of the new call are concatenated in the same order
C1_Theorem ==
    LastOp = "concatenate_calls" =>
        \A b \in ConcatenatedBatches :
            LET batch == batches[b]
                calls == BatchCalls(batch)
            IN  /\ \A name \in DOMAIN calls[1].function.returns :
                     ReturnConcat(batch, name) # ConcatableIfConstant =>
                        LET a == ReturnConcat(batch, name).axis
                            len(i) == ShapeOf(NamedCallResult(calls[i], name))[a + 1]
                            start(i) == SeqSum([j \in 1..(i - 1) |-> len(j)])
                            new_return == NamedCallResult(batch.new_call, name)
                            slice(i) == batch.result[NamedCallResult(calls[i], name)]
                        IN  /\ \A i \in DOMAIN calls :
                                 /\ slice(i).k = "BasicIndex"
                                 /\ slice(i).array = new_return
                                 /\ slice(i).axis = a
                                 /\ slice(i).start = start(i)
                                 /\ slice(i).stop = start(i) + len(i)
                                 /\ slice(i).shape = ShapeOf(NamedCallResult(calls[i], name))
                            /\ \A i, j \in DOMAIN calls :
                                 i < j => slice(i).stop <= slice(j).start
                            /\ \A x \in 0..(ShapeOf(new_return)[a + 1] - 1) :
                                 \E i \in DOMAIN calls :
                                    slice(i).start <= x /\ x < slice(i).stop
                            /\ \A i \in DOMAIN calls :
                                 slice(i).stop <= ShapeOf(new_return)[a + 1]
                /\ \A name \in DOMAIN calls[1].bindings :
                     ParamConcat(batch, name) # ConcatableIfConstant =>
                        /\ batch.new_call.bindings[name].k = "Concatenate"
                        /\ batch.new_call.bindings[name].axis =
                              ParamConcat(batch, name).axis
                        /\ batch.new_call.bindings[name].arrays =
                              [i \in DOMAIN calls |-> calls[i].bindings[name]]

\* a batch of three call sites with 2, 2 and 3 rows was concatenated along
\* axis 0, and the last result became the slice 4:7
C1_Witness ==
    /\ LastOp = "concatenate_calls"
    /\ \E b \in ConcatenatedBatches :
          /\ Len(batches[b].call_sites) = 3
          /\ ReturnConcat(batches[b], "r") = ConcatableAlongAxis(0)
          /\ LET last == batches[b].result[
                            NamedCallResult(BatchCalls(batches[b])[3], "r")]
             IN  last.start = 4 /\ last.stop = 7

\* C2 as stated: a parameter for which the new call keeps the binding of the
\* template call site is bound to the same array at every call site of the
\* batch
C2_Original ==
    LastOp = "concatenate_calls" =>
        \A b \in ConcatenatedBatches :
            LET batch == batches[b]
                calls == BatchCalls(batch)
            IN  \A name \in DOMAIN calls[1].bindings :
                    ParamConcat(batch, name) = ConcatableIfConstant =>
                        /\ batch.new_call.bindings[name] = calls[1].bindings[name]
                        /\ \A i \in DOMAIN calls :
                              calls[i].bindings[name] = calls[1].bindings[name]

\* new is the node of the new function body built from the node tmpl of the
\* template call site and the nodes others of the other call sites: wherever
\* a node is concatenated along an axis, its shape is tmpl's shape with the
\* lengths of all call sites summed along that axis, and the call sites agree
\* on the number of axes and on the other lengths
RECURSIVE ConcatenatedShapesOK(_, _, _, _)
ConcatenatedShapesOK(a2c, new, tmpl, others) ==
    LET concat == a2c[OnStack(tmpl)]
        arys == <<tmpl>> \o others
    IN  concat # ConcatableIfConstant =>
            /\ Len(new.shape) = Len(tmpl.shape)
            /\ \A d \in DOMAIN tmpl.shape :
                  new.shape[d] =
                      IF d = concat.axis + 1
                      THEN SeqSum([i \in DOMAIN arys |-> arys[i].shape[d]])
                      ELSE tmpl.shape[d]
            /\ \A i \in DOMAIN arys :
                  /\ Len(arys[i].shape) = Len(tmpl.shape)
                  /\ \A d \in DOMAIN tmpl.shape :
                        d # concat.axis + 1 => arys[i].shape[d] = tmpl.shape[d]
            /\ tmpl.k = "IndexLambda" =>
                  \A n \in DOMAIN tmpl.bindings :
                      ConcatenatedShapesOK(
                          a2c, new.bindings[n], tmpl.bindings[n],
                          [j \in DOMAIN others |-> others[j].bindings[n]])

\* C9: every node of the function body concatenated along axis a has the
\* template node's shape with component a replaced by the sum of the
\* a-lengths over the call sites of the batch, the other components and the
\* number of axes being the same at every call site
C9_Theorem ==
    LastOp = "concatenate_calls" =>
        \A b \in ConcatenatedBatches :
            LET batch == batches[b]
                calls == BatchCalls(batch)
            IN  \A name \in DOMAIN calls[1].function.returns :
                    ConcatenatedShapesOK(
                        batch.ary_to_concatenatability,
                        batch.new_call.function.returns[name],
                        calls[1].function.returns[name],
                        [j \in 1..(Len(calls) - 1) |->
                            calls[j + 1].function.returns[name]])

\* a batch of call sites with 2 and 3 rows was concatenated along axis 0 and
\* the parameter a of the new function has 5 rows
C9_Witness ==
    /\ LastOp = "concatenate_calls"
    /\ \E b \in ConcatenatedBatches :
          /\ ParamConcat(batches[b], "a") = ConcatableAlongAxis(0)
          /\ BatchCalls(batches[b])[1].function.parameters["a"].shape = <<2, 2>>
          /\ BatchCalls(batches[b])[2].function.parameters["a"].shape = <<3, 2>>
          /\ batches[b].new_call.function.parameters["a"].shape = <<5, 2>>

\* what a run of concatenate_calls decided: per batch the call sites in
\* their order, hence the template and the order of concatenation and
\* slicing, and the plan
Decisions(log) ==
    [i \in DOMAIN log |->
        [call_sites |-> log[i].call_sites,
         plan |-> IF log[i].skipped \/ log[i].exc # "none" THEN <<>>
                  ELSE log[i].ary_to_concatenatability]]

\* C10 as stated: every run of concatenate_calls on the same graph forms the
\* same batches with the same order of call sites, chooses the same plans
\* and returns the same graph
C10_Original ==
    LastOp = "concatenate_calls" =>
        \A outcome \in concatenate_calls(dag_in, call_opts) :
            /\ outcome.result = dag
            /\ Decisions(outcome.log) = Decisions(batches)

\* the batches of the last run with fewer than two call sites
SmallBatches == {i \in DOMAIN batches : Len(batches[i].call_sites) < 2}

\* the outputs of the graph given to the last run that are results of call
OutputsOfCall(call) ==
    {o \in DOMAIN dag_in.data :
        /\ dag_in.data[o].k = "NamedCallResult"
        /\ dag_in.data[o].container = call}

\* the results of call are still results of a call to the same function in
\* the graph returned: they received no replacement
KeptAsCall(call) ==
    \A o \in OutputsOfCall(call) :
        /\ dag.data[o].k = "NamedCallResult"
        /\ dag.data[o].container.k = "Call"
        /\ dag.data[o].container.function = call.function

\* C17: a batch with fewer than two call sites is never concatenated; with
\* err_if_no_calls the run ends there in a ValueError, otherwise the batch is
\* skipped, with a warning exactly if warn_if_no_calls is set, its call sites
\* keep their calls, and the batches after it are processed: when the run
\* ends without an exception every call of an output is in a logged batch
C17_Theorem ==
    LastOp = "concatenate_calls" =>
        /\ \A i \in SmallBatches :
              /\ batches[i].skipped
              /\ IF call_opts.err_if_no_calls
                 THEN /\ batches[i].exc = "ValueError"
                      /\ ~batches[i].warned
                      /\ i = Len(batches)
                      /\ dag = Raised("ValueError")
                 ELSE /\ batches[i].exc = "none"
                      /\ batches[i].warned = call_opts.warn_if_no_calls
                      /\ dag.k = "DictOfNamedArrays" =>
                             \A c \in DOMAIN batches[i].call_sites :
                                 KeptAsCall(batches[i].call_sites[c].call)
        /\ dag.k = "DictOfNamedArrays" =>
              \A o \in DOMAIN dag_in.data :
                  dag_in.data[o].k = "NamedCallResult" =>
                      \E i \in DOMAIN batches :
                          \E c \in DOMAIN batches[i].call_sites :
                              batches[i].call_sites[c].call
                                  = dag_in.data[o].container

\* a run that skipped a batch of one call site with a warning and then
\* concatenated a later batch
C17_Witness ==
    /\ LastOp = "concatenate_calls"
    /\ dag.k = "DictOfNamedArrays"
    /\ \E i \in SmallBatches :
          /\ batches[i].warned
          /\ Len(batches[i].call_sites) = 1
          /\ OutputsOfCall(batches[i].call_sites[1].call) # {}
          /\ \E j \in ConcatenatedBatches : i < j

\* the batches of the last run for which a plan was looked for
PlannedBatches == {i \in DOMAIN batches : ~batches[i].skipped}

\* the outcomes of the candidate plans of batch i, in the order in which
\* plan selection tried them
Candidates(i) == batches[i].candidates

\* the candidates of batch i that validate, by position
ValidCandidates(i) ==
    {c \in DOMAIN Candidates(i) : Candidates(i)[c].exc = "none"}
FirstValid(candidates) ==
    CHOOSE c \in DOMAIN candidates :
        /\ candidates[c].exc = "none"
        /\ \A d \in 1..(c - 1) :
              candidates[d].exc = "_InvalidConcatenatability"

\* C23 as stated: the plan of a rewritten batch is that of the first
\* candidate that validates, every candidate before it having been discarded
\* with _InvalidConcatenatability; the batch is rewritten whenever a
\* candidate validates; when none does the run ends in ValueError and returns
\* nothing
C23_Original ==
    LastOp = "concatenate_calls" =>
        \A i \in PlannedBatches :
            IF ValidCandidates(i) # {}
            THEN /\ batches[i].exc = "none"
                 /\ batches[i].ary_to_concatenatability =
                       Candidates(i)[FirstValid(Candidates(i))]
                           .ary_to_concatenatability
            ELSE /\ batches[i].exc = "ValueError"
                 /\ dag = Raised("ValueError")

\* the call sites the call site cs depends on
DepsOf(cs) == CallSiteDependencyCollector(cs.stack, cs.call) \ {cs}

\* the call sites of batch i of the last run
SitesOf(i) == Range(batches[i].call_sites)

\* C24: a call site of the pool of a function identifier is batched only
\* after the call sites of the pool it depends on: they are in batches that
\* precede its own, so no batch holds a site together with one it depends
\* on; the sites of a batch share their caller stack and their return names
C24_Theorem ==
    LastOp = "concatenate_calls" =>
        \A i \in DOMAIN batches :
            /\ \A A \in SitesOf(i) :
                  \A B \in DepsOf(A) :
                      batches[i].fid \in B.call.function.tags =>
                          /\ B \notin SitesOf(i)
                          /\ \E j \in 1..(i - 1) :
                                /\ batches[j].fid = batches[i].fid
                                /\ B \in SitesOf(j)
            /\ \A A, B \in SitesOf(i) :
                  /\ A.stack = B.stack
                  /\ DOMAIN A.call.function.returns
                        = DOMAIN B.call.function.returns

\* a call site batched after the batch of a call site it depends on, in a
\* batch of two
C24_Witness ==
    /\ LastOp = "concatenate_calls"
    /\ \E i, j \in DOMAIN batches :
          /\ j < i /\ batches[j].fid = batches[i].fid
          /\ Cardinality(SitesOf(i)) = 2
          /\ \E A \in SitesOf(i), B \in SitesOf(j) : B \in DepsOf(A)

\* the call sites of expr that carry the function identifier fid
FilteredCallSites(expr, fid) ==
    {cs \in CallSiteDependencyCollector(<<>>, expr) :
        fid \in cs.call.function.tags}

\* the ways the batching loop of the identifier fid can end on expr
BatchingOutcomes(expr, fid) ==
    BatchLoop(FilteredCallSites(expr, fid),
              call_site_to_dep_call_sites(expr), <<>>)

\* every batch is non-empty and lists a site once, and every site of sites
\* is in exactly one batch
IsBatching(call_site_batches, sites) ==
    /\ \A i \in DOMAIN call_site_batches :
          /\ call_site_batches[i].call_sites # <<>>
          /\ Range(call_site_batches[i].call_sites) \subseteq sites
          /\ Len(call_site_batches[i].call_sites)
                = Cardinality(Range(call_site_batches[i].call_sites))
    /\ \A cs \in sites :
          Cardinality({i \in DOMAIN call_site_batches :
                          cs \in Range(call_site_batches[i].call_sites)}) = 1

\* the batches logged for the identifier fid, in order
BatchesOf(fid) ==
    SelectSeq(batches, LAMBDA entry : entry.fid = fid)

\* C29: the batching loop of concatenate_calls ends for the call-site
\* dependency graph of the computation, without the "cycle" or the "no
\* similar call sites" ValueError, and then every call site of the function
\* identifier is in exactly one batch, no batch being empty; the batches a
\* completed run logs for the identifier batched first are such a batching
C29_Theorem ==
    LastOp = "concatenate_calls" =>
        /\ \A cs \in CallSiteDependencyCollector(<<>>, dag_in) :
              \A fid \in cs.call.function.tags :
                  \A outcome \in BatchingOutcomes(dag_in, fid) :
                      IF outcome.ok
                      THEN IsBatching(outcome.val,
                                      FilteredCallSites(dag_in, fid))
                      ELSE outcome.exc # "ValueError"
        /\ (dag.k = "DictOfNamedArrays" /\ batches # <<>>) =>
              IsBatching(BatchesOf(batches[1].fid),
                         FilteredCallSites(dag_in, batches[1].fid))

\* a completed run whose loop formed two batches out of the three call sites
\* of one function identifier
C29_Witness ==
    /\ LastOp = "concatenate_calls"
    /\ dag.k = "DictOfNamedArrays"
    /\ batches # <<>>
    /\ Len(BatchesOf(batches[1].fid)) = 2
    /\ Cardinality(FilteredCallSites(dag_in, batches[1].fid)) = 3
    /\ IsBatching(BatchesOf(batches[1].fid),
                  FilteredCallSites(dag_in, batches[1].fid))

\* C30 as stated: during the validation of a plan accepted by the search
\* each (call stack, array) pair is assigned a concatenatability at most
\* once: no validation ends in the AssertionError of _record_concatability,
\* also when a node of the template body is shared by parents that require
\* different concatenatabilities of it
C30_Original ==
    LastOp = "concatenate_calls" =>
        \A i \in PlannedBatches :
            \A c \in DOMAIN Candidates(i) :
                Candidates(i)[c].exc # "AssertionError"

\* the candidate plans the simple search returns for batch i, as a set
SimplePlans(i) ==
    LET call_sites == BatchCalls(batches[i])
        axis_order == CHOOSE order \in
                          Permutations_(candidate_concat_axes_of(call_sites)) : TRUE
        plans == _get_valid_concatenatability_constraints_simple(call_sites,
                                                                 axis_order)
    IN  IF plans.ok THEN Range(plans.val) ELSE {}

\* what the accumulators of the returns of batch i derive for the parameter
\* param when the returns are concatenated as output_concat says
DerivedRequirements(i, output_concat, param) ==
    LET accs == output_accs(BatchCalls(batches[i]))
    IN  {accs[name].val.input_concatability[output_concat][input_arg] :
            name \in {n \in DOMAIN accs :
                          output_concat \in DOMAIN accs[n].val.input_concatability},
            input_arg \in {a \in UNION {accs[n].val.seen_inputs : n \in DOMAIN accs} :
                              a.name = param}}

\* C25 as stated: in every candidate plan of the simple search all returns
\* and all parameters have one and the same label, and the label of each
\* parameter is the requirement the accumulators of the returns derive for
\* it under that label of the returns
C25_Original ==
    LastOp = "concatenate_calls" =>
        \A i \in PlannedBatches :
            \A plan \in SimplePlans(i) :
                \E label \in Range(plan.output_to_concatenatability) :
                    /\ \A name \in DOMAIN plan.output_to_concatenatability :
                          plan.output_to_concatenatability[name] = label
                    /\ \A param \in DOMAIN plan.input_to_concatenatability :
                          /\ plan.input_to_concatenatability[param] = label
                          /\ DerivedRequirements(i, label, param)
                                = {plan.input_to_concatenatability[param]}

(***************************************************************************)
(* Inputs of a computation.  A DataWrapper refers to concrete data (here a *)
(* handle) and has no name of its own; a Placeholder may be unnamed.       *)
(***************************************************************************)
None == "<None>"

DataWrapper(data, shape, dtype, tags) ==
    [k |-> "DataWrapper", name |-> None, data |-> data, shape |-> shape,
     dtype |-> dtype, axes |-> [i \in DOMAIN shape |-> {}], tags |-> tags]
SizeParam(name) ==
    [k |-> "SizeParam", name |-> name, shape |-> <<>>, tags |-> {}]

(***************************************************************************)
(* NamesValidityChecker, check_validity_of_outputs.  The graph is a table  *)
(* of node objects, object id -> node, the bindings of an IndexLambda      *)
(* being object ids: the checker tells nodes apart by identity.            *)
(***************************************************************************)
\* variant: two inputs clash when they are unequal, not when they are two
\* objects
post_visit_by_equality(checker, heap, oid) ==
    LET expr == heap[oid]
    IN  IF expr.k \in InputArgumentBase /\ expr.name # None
        THEN IF expr.name \notin DOMAIN checker.name_to_input
             THEN [checker EXCEPT
                     !.name_to_input = Put(@, expr.name, oid)]
             ELSE IF heap[checker.name_to_input[expr.name]] # expr
                  THEN [checker EXCEPT !.exc = "NameClashError"]
                  ELSE checker
        ELSE checker

post_visit(checker, heap, oid) ==
    LET expr == heap[oid]
    IN  IF expr.k \in InputArgumentBase /\ expr.name # None
        THEN IF expr.name \notin DOMAIN checker.name_to_input
             THEN [checker EXCEPT
                     !.name_to_input = Put(@, expr.name, oid)]
             ELSE IF checker.name_to_input[expr.name] # oid
                  THEN [checker EXCEPT !.exc = "NameClashError"]
                  ELSE checker
        ELSE checker

RECURSIVE NamesValidityChecker(_, _, _)
RECURSIVE NamesValidityChecker_children(_, _, _)
NamesValidityChecker_children(checker, heap, oids) ==
    IF oids = <<>> THEN checker
    ELSE NamesValidityChecker_children(
            NamesValidityChecker(checker, heap, Head(oids)), heap, Tail(oids))

\* CachedWalkMapper.rec with get_cache_key = id(expr)
NamesValidityChecker(checker, heap, oid) ==
    IF checker.exc # "none" \/ oid \in checker.visited THEN checker
    ELSE LET expr == heap[oid]
             children ==
                 IF expr.k = "IndexLambda"
                 THEN [i \in DOMAIN SortedBindings(expr) |->
                          expr.bindings[SortedBindings(expr)[i]]]
                 ELSE <<>>
             walked == NamesValidityChecker_children(
                          [checker EXCEPT !.visited = @ \cup {oid}],
                          heap, children)
         IN  IF walked.exc # "none" THEN walked
             ELSE post_visit(walked, heap, oid)

\* returns the exception raised, or "none"
check_validity_of_outputs(heap, exprs) ==
    NamesValidityChecker_children(
        [name_to_input |-> <<>>, visited |-> {}, exc |-> "none"],
        heap, [i \in DOMAIN exprs |-> exprs[i][2]]).exc

\* the array an object stands for, bindings being arrays
RECURSIVE ArrayOf(_, _)
ArrayOf(heap, oid) ==
    IF heap[oid].k = "IndexLambda"
    THEN [heap[oid] EXCEPT
            !.bindings = [n \in DOMAIN @ |-> ArrayOf(heap, @[n])]]
    ELSE heap[oid]

(***************************************************************************)
(* CodeGenPreprocessor: [target, bound_arguments, var_name_gen,            *)
(* kernels_seen, cache]; the cache is that of the CopyMapper, keyed by the *)
(* array.                                                                  *)
(***************************************************************************)
\* kernels_seen is a dict in insertion order: a sequence of <<name, kernel>>
NewCodeGenPreprocessor(target) ==
    [target |-> target, bound_arguments |-> <<>>, var_name_gen |-> {},
     kernels_seen |-> <<>>, cache |-> <<>>]

Mapped(obj, result) == Ok([mapper |-> obj, result |-> result])

CodeGenPreprocessor_map_placeholder(obj, expr) ==
    IF expr.name = None
    THEN LET new_name == UniqueName(obj.var_name_gen, "_pt_in")
         IN  Mapped([obj EXCEPT !.var_name_gen = @ \cup {new_name}],
                    [expr EXCEPT !.name = new_name])
    ELSE Mapped(obj, expr)

\* variant: the Placeholder is built without the tags of the wrapper
\* (the data is still recorded)
CodeGenPreprocessor_map_data_wrapper_untagged(obj, expr) ==
    LET gen == _generate_name_for_temp(expr, obj.var_name_gen, "_pt_data")
    IN  IF ~gen.ok THEN gen
        ELSE Mapped([obj EXCEPT
                        !.var_name_gen = @ \cup {gen.val},
                        !.bound_arguments = Put(@, gen.val, expr.data)],
                    [k |-> "Placeholder", name |-> gen.val,
                     shape |-> expr.shape, dtype |-> expr.dtype,
                     axes |-> expr.axes, tags |-> {}])

CodeGenPreprocessor_map_data_wrapper(obj, expr) ==
    LET gen == _generate_name_for_temp(expr, obj.var_name_gen, "_pt_data")
    IN  IF ~gen.ok THEN gen
        ELSE Mapped([obj EXCEPT
                        !.var_name_gen = @ \cup {gen.val},
                        !.bound_arguments = Put(@, gen.val, expr.data)],
                    [k |-> "Placeholder", name |-> gen.val,
                     shape |-> expr.shape, dtype |-> expr.dtype,
                     axes |-> expr.axes, tags |-> expr.tags])

RECURSIVE CodeGenPreprocessor(_, _)
RECURSIVE CodeGenPreprocessor_bindings(_, _, _, _)
\* the bindings of expr named in names, mapped in this order; done holds
\* the bindings mapped so far
CodeGenPreprocessor_bindings(obj, expr, names, done) ==
    IF names = <<>> THEN Mapped(obj, done)
    ELSE LET r == CodeGenPreprocessor(obj, expr.bindings[Head(names)])
         IN  IF ~r.ok THEN r
             ELSE CodeGenPreprocessor_bindings(
                     r.val.mapper, expr, Tail(names),
                     Put(done, Head(names), r.val.result))

CodeGenPreprocessor_map_index_lambda(obj, expr) ==
    LET r == CodeGenPreprocessor_bindings(obj, expr, SortedBindings(expr),
                                          <<>>)
    IN  IF ~r.ok THEN r
        ELSE Mapped(r.val.mapper, [expr EXCEPT !.bindings = r.val.result])

(***************************************************************************)
(* LoopyCall.  A kernel is [name, body], a translation unit the table of   *)
(* its callables in insertion order, <<name, callable>>.                   *)
(***************************************************************************)
LoopKernel(name, body) == [name |-> name, body |-> body]
LoopKernel_copy(knl, name) == [knl EXCEPT !.name = name]
CallableKernel(subkernel) == [kind |-> "CallableKernel", subkernel |-> subkernel]
ScalarCallable(name) == [kind |-> "ScalarCallable", name |-> name]
TranslationUnit(callables_table) == [callables_table |-> callables_table]
LoopyCall(translation_unit, bindings, entrypoint, tags) ==
    [k |-> "LoopyCall", translation_unit |-> translation_unit,
     bindings |-> bindings, entrypoint |-> entrypoint, tags |-> tags]

\* translation_unit[name]: the kernel of the callable name
TranslationUnit_getitem(translation_unit, name) ==
    Lookup(translation_unit.callables_table, name).subkernel

\* d[key] = val on a dict in insertion order
DictSet(d, key, val) ==
    IF key \in Keys(d)
    THEN [i \in DOMAIN d |-> IF d[i][1] = key THEN <<key, val>> ELSE d[i]]
    ELSE Append(d, <<key, val>>)

\* lp.rename_callable(t_unit, old_name, new_name): raises when a callable
\* named new_name exists
rename_callable(translation_unit, old_name, new_name) ==
    IF new_name \in Keys(translation_unit.callables_table)
    THEN Raise("LoopyError")
    ELSE Ok(TranslationUnit(
            [i \in DOMAIN translation_unit.callables_table |->
                LET item == translation_unit.callables_table[i]
                IN  IF item[1] # old_name THEN item
                    ELSE <<new_name,
                           IF item[2].kind = "CallableKernel"
                           THEN CallableKernel(
                                   LoopKernel_copy(item[2].subkernel, new_name))
                           ELSE item[2]>>]))

\* the name under which a colliding callable goes on, and the generator
\* after the choice: the name of the first kernel seen that equals it up to
\* the name, else a new name
new_callable_name(kernels_seen, namegen, knl, name) ==
    LET same == {i \in DOMAIN kernels_seen :
                    LoopKernel_copy(kernels_seen[i][2], name) = knl}
    IN  IF same # {}
        THEN [name |->
                 kernels_seen[CHOOSE i \in same : \A j \in same : i <= j][2].name,
              namegen |-> namegen]
        ELSE [name |-> UniqueName(namegen, name),
              namegen |-> namegen \cup {UniqueName(namegen, name)}]

\* "for name, clbl in expr.translation_unit.callables_table.items()" from
\* item i on; acc is [kernels_seen, namegen, new_translation_unit,
\* new_entrypoint]
RECURSIVE eliminate_callable_name_collision(_, _, _)

\* the callable of item i goes on as chosen.name: renamed is the outcome of
\* rename_callable
rename_colliding(expr, i, acc, chosen, renamed) ==
    IF ~renamed.ok THEN renamed
    ELSE eliminate_callable_name_collision(expr, i + 1,
            [kernels_seen |->
                DictSet(acc.kernels_seen, chosen.name,
                        expr.translation_unit.callables_table[i][2].subkernel),
             namegen |-> chosen.namegen,
             new_translation_unit |-> renamed.val,
             new_entrypoint |->
                IF expr.translation_unit.callables_table[i][1] = expr.entrypoint
                THEN chosen.name ELSE acc.new_entrypoint])

callee_name_collision(expr, i, acc, name, chosen) ==
    rename_colliding(expr, i, acc, chosen,
                     rename_callable(acc.new_translation_unit, name,
                                     chosen.name))

eliminate_callable_name_collision(expr, i, acc) ==
    IF i > Len(expr.translation_unit.callables_table) THEN Ok(acc)
    ELSE
    LET name == expr.translation_unit.callables_table[i][1]
        clbl == expr.translation_unit.callables_table[i][2]
    IN  IF clbl.kind # "CallableKernel"
        THEN eliminate_callable_name_collision(expr, i + 1, acc)
        ELSE IF /\ name \in Keys(acc.kernels_seen)
                /\ TranslationUnit_getitem(expr.translation_unit, name)
                      # Lookup(acc.kernels_seen, name)
        THEN callee_name_collision(expr, i, acc, name,
                new_callable_name(
                    acc.kernels_seen, acc.namegen,
                    TranslationUnit_getitem(expr.translation_unit, name),
                    name))
        ELSE eliminate_callable_name_collision(expr, i + 1,
                [acc EXCEPT !.kernels_seen =
                                DictSet(@, name, clbl.subkernel)])

\* the LoopyCall returned, new_bindings being the outcome of mapping the
\* bindings
map_loopy_call_result(expr, renamed, new_bindings) ==
    IF ~new_bindings.ok THEN new_bindings
    ELSE Mapped(new_bindings.val.mapper,
                LoopyCall(renamed.new_translation_unit,
                          new_bindings.val.result,
                          renamed.new_entrypoint, expr.tags))

map_loopy_call_bindings(obj, expr, renamed) ==
    IF ~renamed.ok THEN renamed
    ELSE map_loopy_call_result(
            expr, renamed.val,
            CodeGenPreprocessor_bindings(
                [obj EXCEPT !.kernels_seen = renamed.val.kernels_seen],
                expr, SortedBindings(expr), <<>>))

CodeGenPreprocessor_map_loopy_call(obj, expr) ==
    IF obj.target # "LoopyTarget" THEN Raise("ValueError")
    ELSE map_loopy_call_bindings(
            obj, expr,
            eliminate_callable_name_collision(expr, 1,
                [kernels_seen |-> obj.kernels_seen,
                 namegen |-> Keys(obj.kernels_seen),
                 new_translation_unit |-> expr.translation_unit,
                 new_entrypoint |-> expr.entrypoint]))

CodeGenPreprocessor_dispatch(obj, expr) ==
    CASE expr.k = "Placeholder" -> CodeGenPreprocessor_map_placeholder(obj, expr)
      [] expr.k = "DataWrapper" -> CodeGenPreprocessor_map_data_wrapper(obj, expr)
      [] expr.k = "SizeParam" -> Mapped(obj, expr)
      [] expr.k = "IndexLambda" ->
            CodeGenPreprocessor_map_index_lambda(obj, expr)
      [] expr.k = "LoopyCall" -> CodeGenPreprocessor_map_loopy_call(obj, expr)

\* the mapper called on expr: CopyMapper.rec with its cache
CodeGenPreprocessor(obj, expr) ==
    IF expr \in DOMAIN obj.cache THEN Mapped(obj, obj.cache[expr])
    ELSE LET r == CodeGenPreprocessor_dispatch(obj, expr)
         IN  IF ~r.ok THEN r
             ELSE Mapped([r.val.mapper EXCEPT
                             !.cache = Put(@, expr, r.val.result)],
                         r.val.result)

(***************************************************************************)
(* preprocess on graphs of three input objects and two IndexLambda that    *)
(* share the first of them: object 4 reads objects 1 and 2, object 5 reads *)
(* objects 1 and 3.                                                        *)
(***************************************************************************)
PrepShape == <<2>>

PrepInputs ==
    {Placeholder("x", PrepShape), Placeholder("_pt_data", PrepShape),
     Placeholder("_pt_in", PrepShape), Placeholder(None, PrepShape),
     SizeParam("x"),
     DataWrapper("d1", PrepShape, "float64", {}),
     DataWrapper("d2", PrepShape, "int32", {}),
     DataWrapper("d1", PrepShape, "float64", {Named("x")}),
     DataWrapper("d2", PrepShape, "int32", {Named("x")}),
     DataWrapper("d2", PrepShape, "int32", {PrefixNamed("x")})}

OperandRef(name, node) ==
    IF node.shape = <<>> THEN Variable(name) ELSE Subscript(name, <<Idx0>>)

PairLambda(n0, o0, n1, o1) ==
    IndexLambda(Sum(<<OperandRef("in0", n0), OperandRef("in1", n1)>>),
                PrepShape, [b \in {"in0", "in1"} |->
                               IF b = "in0" THEN o0 ELSE o1], {})

PrepHeap(n1, n2, n3) ==
    <<n1, n2, n3, PairLambda(n1, 1, n2, 2), PairLambda(n1, 1, n3, 3)>>

PrepOutputs ==
    {<<<<"a", 4>>, <<"b", 5>>>>, <<<<"a", 4>>, <<"b", 4>>>>, <<<<"a", 4>>>>}

PrepInit ==
    /\ pc = "start"
    /\ \E n1, n2, n3 \in PrepInputs : objs = PrepHeap(n1, n2, n3)
    /\ prep_outputs \in PrepOutputs
    /\ mapper = NewCodeGenPreprocessor("LoopyTarget")
    /\ new_outputs = <<>>
    /\ raised = "none"
    /\ loopy_calls = <<>>
    /\ namespace = <<>> /\ ns_log = <<>>
    /\ scalar_call = <<>> /\ scalar_result = <<>>
    /\ orig_outputs = <<>> /\ outputs = <<>> /\ compute_order = <<>>
    /\ state = get_initial_codegen_state
    /\ emitted = <<>>
    /\ dag = <<>> /\ dag_in = <<>> /\ ops = <<>> /\ batches = <<>>
    /\ call_opts = <<>>

\* preprocess up to the construction of the CodeGenPreprocessor: the check
\* of the input names and the order of the outputs
CheckValidityOfOutputs ==
    /\ pc = "start"
    /\ raised' = check_validity_of_outputs(objs, prep_outputs)
    /\ pc' = IF raised' = "none" THEN "copy" ELSE "error"
    /\ compute_order' =
          IF raised' = "none"
          THEN preprocess_compute_order(
                  [i \in DOMAIN prep_outputs |->
                      <<prep_outputs[i][1], ArrayOf(objs, prep_outputs[i][2])>>])
          ELSE compute_order
    /\ UNCHANGED <<orig_outputs, outputs, state, emitted, tvars,
                   objs, prep_outputs, mapper, new_outputs, loopy_calls,
                   namespace, ns_log,
                   scalar_call, scalar_result>>

\* copy_dict_of_named_arrays(new_outputs, mapper): the mapper called on one
\* output
CopyOutput ==
    /\ pc = "copy"
    /\ Len(new_outputs) < Len(prep_outputs)
    /\ LET out == prep_outputs[Len(new_outputs) + 1]
           r == CodeGenPreprocessor(mapper, ArrayOf(objs, out[2]))
       IN  IF r.ok
           THEN /\ mapper' = r.val.mapper
                /\ new_outputs' = Append(new_outputs, <<out[1], r.val.result>>)
                /\ raised' = raised
                /\ pc' = IF Len(new_outputs) + 1 = Len(prep_outputs)
                         THEN "done" ELSE "copy"
           ELSE /\ raised' = r.exc
                /\ pc' = "error"
                /\ UNCHANGED <<mapper, new_outputs>>
    /\ UNCHANGED <<orig_outputs, outputs, compute_order, state, emitted, tvars,
                   objs, prep_outputs, loopy_calls, namespace, ns_log,
                   scalar_call, scalar_result>>

PrepNext == CheckValidityOfOutputs \/ CopyOutput

SpecPrep == PrepInit /\ [][PrepNext]_vars

(***************************************************************************)
(* Properties of the preprocessor                                          *)
(***************************************************************************)
\* the object ids reachable from the outputs handed in
RECURSIVE ReachableFrom(_)
ReachableFrom(oid) ==
    {oid} \cup
    IF objs[oid].k = "IndexLambda"
    THEN UNION {ReachableFrom(objs[oid].bindings[n]) :
                   n \in DOMAIN objs[oid].bindings}
    ELSE {}
ReachableObjects ==
    UNION {ReachableFrom(prep_outputs[i][2]) : i \in DOMAIN prep_outputs}
ReachableInputs ==
    {objs[oid] : oid \in {o \in ReachableObjects :
                             objs[o].k \in InputArgumentBase}}

\* the inputs whose name the preprocessor generates
HasGeneratedName(node) ==
    node.k = "DataWrapper" \/ (node.k = "Placeholder" /\ node.name = None)

\* the name under which an input of the graph handed in is known after the
\* preprocessor has mapped it
NameAfter(node) ==
    IF node \in DOMAIN mapper.cache THEN mapper.cache[node].name
    ELSE node.name

\* C11 as stated: the name the preprocessor generates for a DataWrapper or
\* for an unnamed Placeholder differs from the name of every other input of
\* the graph
C11_Original ==
    \A n, m \in ReachableInputs :
        (/\ n # m
         /\ HasGeneratedName(n)
         /\ n \in DOMAIN mapper.cache
         /\ NameAfter(m) # None)
        => NameAfter(n) # NameAfter(m)

\* C12: check_validity_of_outputs raises NameClashError exactly when two
\* distinct input objects with the same name, which is not None, are
\* reachable from the outputs; an object reached along several paths or from
\* several outputs does not make it raise
C12_Theorem ==
    pc # "start" =>
        ((raised = "NameClashError" /\ pc = "error" /\ new_outputs = <<>>)
         <=> \E o1, o2 \in ReachableObjects :
                /\ o1 # o2
                /\ objs[o1].k \in InputArgumentBase
                /\ objs[o2].k \in InputArgumentBase
                /\ objs[o1].name # None
                /\ objs[o1].name = objs[o2].name)

C12_Witness ==
    /\ raised = "NameClashError"
    /\ objs[1] = objs[2]
    /\ objs[1].k = "Placeholder"
    /\ objs[3].name # objs[1].name

\* C13: every DataWrapper the preprocessor has mapped is replaced by a
\* Placeholder with its shape, dtype, axes and tags, bound_arguments maps
\* the name of this Placeholder to the data of the wrapper, two different
\* DataWrappers have different names, and no DataWrapper is left in the
\* outputs copied
DataWrappersMapped == {e \in DOMAIN mapper.cache : e.k = "DataWrapper"}

RECURSIVE NoDataWrapper(_)
NoDataWrapper(expr) ==
    /\ expr.k # "DataWrapper"
    /\ expr.k = "IndexLambda" =>
          \A n \in DOMAIN expr.bindings : NoDataWrapper(expr.bindings[n])

C13_Theorem ==
    /\ \A dw \in DataWrappersMapped :
          LET new == mapper.cache[dw]
          IN  /\ new.k = "Placeholder"
              /\ new.shape = dw.shape /\ new.dtype = dw.dtype
              /\ new.axes = dw.axes /\ new.tags = dw.tags
              /\ new.name \in DOMAIN mapper.bound_arguments
              /\ mapper.bound_arguments[new.name] = dw.data
    /\ \A dw1, dw2 \in DataWrappersMapped :
          dw1 # dw2 => mapper.cache[dw1].name # mapper.cache[dw2].name
    /\ \A i \in DOMAIN new_outputs : NoDataWrapper(new_outputs[i][2])
    /\ pc = "done" =>
          \A n \in ReachableInputs :
              n.k = "DataWrapper" => n \in DataWrappersMapped

C13_Witness ==
    /\ pc = "done"
    /\ \E dw1, dw2 \in DataWrappersMapped :
          /\ dw1.data # dw2.data
          /\ dw1.tags # {}
          /\ mapper.cache[dw1].name = "x"
          /\ mapper.cache[dw2].name = "x_0"

(***************************************************************************)
(* map_loopy_call on one CodeGenPreprocessor, called on LoopyCalls whose   *)
(* translation units hold kernels named f or f_0 with the body A or B.     *)
(***************************************************************************)
LoopyNames == {"f", "f_0"}
LoopyBodies == {"A", "B"}

KernelItem(name, body) == <<name, CallableKernel(LoopKernel(name, body))>>

LoopyTranslationUnits ==
    {TranslationUnit(<<KernelItem(n, b)>>) : n \in LoopyNames, b \in LoopyBodies}
    \cup {TranslationUnit(<<KernelItem("f", b1), KernelItem("f_0", b2)>>) :
             b1, b2 \in LoopyBodies}
    \cup {TranslationUnit(<<<<"sin", ScalarCallable("sin")>>,
                            KernelItem("f", "A")>>)}

LoopyBindings ==
    {<<>>, [b \in {"in0"} |-> DataWrapper("d1", PrepShape, "float64", {})]}

LoopyCallArguments ==
    {LoopyCall(t, b, t.callables_table[Len(t.callables_table)][1], {}) :
        t \in LoopyTranslationUnits, b \in LoopyBindings}

LoopyInit ==
    /\ pc = "loopy"
    /\ \E target \in {"LoopyTarget", "PythonTarget"} :
          mapper = NewCodeGenPreprocessor(target)
    /\ loopy_calls = <<>>
    /\ namespace = <<>> /\ ns_log = <<>>
    /\ scalar_call = <<>> /\ scalar_result = <<>>
    /\ raised = "none"
    /\ objs = <<>> /\ prep_outputs = <<>> /\ new_outputs = <<>>
    /\ orig_outputs = <<>> /\ outputs = <<>> /\ compute_order = <<>>
    /\ state = get_initial_codegen_state
    /\ emitted = <<>>
    /\ dag = <<>> /\ dag_in = <<>> /\ ops = <<>> /\ batches = <<>>
    /\ call_opts = <<>>

MapLoopyCall ==
    /\ pc = "loopy"
    /\ raised = "none"
    /\ Len(loopy_calls) < MaxLoopyCalls
    /\ \E expr \in LoopyCallArguments :
          \E r \in {CodeGenPreprocessor_map_loopy_call(mapper, expr)} :
              /\ mapper' = IF r.ok THEN r.val.mapper ELSE mapper
              /\ raised' = IF r.ok THEN "none" ELSE r.exc
              /\ loopy_calls' =
                    Append(loopy_calls,
                           [expr |-> expr,
                            ok |-> r.ok,
                            result |-> IF r.ok THEN r.val.result ELSE expr,
                            kernels_seen |-> mapper'.kernels_seen])
    /\ UNCHANGED <<lvars, tvars, objs, prep_outputs, new_outputs,
                   namespace, ns_log,
                   scalar_call, scalar_result>>

LoopyNext == MapLoopyCall

SpecLoopyCall == LoopyInit /\ [][LoopyNext]_vars

\* the kernels a LoopyCall refers to, <<callee name, body>>
Callees(call) ==
    {<<call.translation_unit.callables_table[i][1],
       call.translation_unit.callables_table[i][2].subkernel.body>> :
        i \in {j \in DOMAIN call.translation_unit.callables_table :
                 call.translation_unit.callables_table[j][2].kind
                    = "CallableKernel"}}

\* <<name, body>> for the kernels registered in kernels_seen
Registered(kernels_seen) ==
    {<<kernels_seen[i][1], kernels_seen[i][2].body>> : i \in DOMAIN kernels_seen}

\* C14 as stated: two rewritten LoopyCalls refer to the same callee name only
\* if the kernels are identical; a kernel whose name is registered to a
\* different kernel and that equals a kernel seen before up to the name goes
\* on under a name registered to that kernel; kernels_seen never associates
\* a name with a kernel other than the one first registered under it
C14_Original ==
    /\ \A i, j \in DOMAIN loopy_calls :
          (loopy_calls[i].ok /\ loopy_calls[j].ok) =>
              \A c1 \in Callees(loopy_calls[i].result),
                 c2 \in Callees(loopy_calls[j].result) :
                  c1[1] = c2[1] => c1[2] = c2[2]
    /\ \A i \in DOMAIN loopy_calls :
          (i > 1 /\ loopy_calls[i].ok) =>
              LET seen == Registered(loopy_calls[i - 1].kernels_seen)
                  old == loopy_calls[i].expr.translation_unit.callables_table
                  new == loopy_calls[i].result.translation_unit.callables_table
              IN  \A p \in DOMAIN old :
                      (/\ old[p][2].kind = "CallableKernel"
                       /\ \E s \in seen : s[1] = old[p][1]
                                          /\ s[2] # old[p][2].subkernel.body
                       /\ \E s \in seen : s[2] = old[p][2].subkernel.body)
                      => <<new[p][1], old[p][2].subkernel.body>> \in seen
    /\ \A i, j \in DOMAIN loopy_calls :
          i < j =>
              \A s1 \in Registered(loopy_calls[i].kernels_seen),
                 s2 \in Registered(loopy_calls[j].kernels_seen) :
                  s1[1] = s2[1] => s1[2] = s2[2]

(***************************************************************************)
(* Namespace (src/pytato/array.py): a table from names to arrays or None,  *)
(* None marking a reserved name.  Arrays stored in it are handles.  An     *)
(* optional namespace argument is a set: empty for None, else {table}.     *)
(***************************************************************************)
Namespace_contains(ns, name) == name \in DOMAIN ns

\* Namespace.__getitem__(name)
Namespace_getitem(ns, name) ==
    IF name \notin DOMAIN ns THEN Raise("KeyError")
    ELSE IF ns[name] = None THEN Raise("ValueError")
    ELSE Ok(ns[name])

\* variant: assign overwrites a name that is already in the table
Namespace_assign_overwriting(ns, name, value) ==
    Ok([ns |-> [n \in DOMAIN ns \cup {name} |->
                   IF n = name THEN value ELSE ns[n]],
        val |-> name])

\* Namespace.assign(name, value): the table after it and the name returned
Namespace_assign(ns, name, value) ==
    IF name \in DOMAIN ns THEN Raise("ValueError")
    ELSE Ok([ns |-> [n \in DOMAIN ns \cup {name} |->
                        IF n = name THEN value ELSE ns[n]],
             val |-> name])

\* Placeholder.__init__(namespace, name, shape, tags) of this module
Placeholder_init(ns, name, shape, tags) ==
    LET reserved == Namespace_assign(ns, name, None)
    IN  IF ~reserved.ok THEN reserved
        ELSE Ok([ns |-> reserved.val.ns,
                 val |-> [k |-> "Placeholder", name |-> name, shape |-> shape,
                          tags |-> tags]])

(***************************************************************************)
(* Shapes as the caller writes them: a value of Python type t, one of      *)
(* "str", "int", "expr" (a scalar expression) or "tuple" (of components).  *)
(***************************************************************************)
PyStr(v) == [t |-> "str", v |-> v]
PyInt(v) == [t |-> "int", v |-> v]
PyExpr(v) == [t |-> "expr", v |-> v]
PyTuple(v) == [t |-> "tuple", v |-> v]

\* str.isidentifier over the strings used
ValidIdentifiers == {"x", "n", "m"}
isidentifier(s) == s \in ValidIdentifiers

\* pytato.scalar_expr.parse over the strings used
parse(s) ==
    CASE s = "n" -> PyExpr(Variable("n"))
      [] s = "m" -> PyExpr(Variable("m"))
      [] s = "n + m" -> PyExpr(Sum(<<Variable("n"), Variable("m")>>))
      [] s = "2" -> PyInt(2)

\* _check_identifier(s, ns): the exception raised, or "none"
_check_identifier(s, ns) ==
    IF ~isidentifier(s) THEN "ValueError"
    ELSE IF ns # {} /\ \E table \in ns : ~Namespace_contains(table, s)
    THEN "ValueError"
    ELSE "none"

\* _ShapeChecker(ns)(expr): walks expr, checking the name of every variable
RECURSIVE _ShapeChecker(_, _)
_ShapeChecker(ns, expr) ==
    CASE expr.k = "Variable" -> _check_identifier(expr.name, ns)
      [] expr.k = "Sum" ->
            IF \E i \in DOMAIN expr.children :
                   _ShapeChecker(ns, expr.children[i]) # "none"
            THEN "ValueError"
            ELSE "none"

\* normalize_shape_component(s) inside normalize_shape(shape, ns)
normalize_shape_component(s0, ns) ==
    LET s == IF s0.t = "str" THEN parse(s0.v) ELSE s0
    IN  IF s.t = "int"
        THEN IF s.v < 0 THEN Raise("ValueError") ELSE Ok(s)
        ELSE IF s.t = "expr"
        THEN IF _ShapeChecker({}, s.v) # "none" THEN Raise("ValueError")
             ELSE Ok(s)
        ELSE Ok(s)

\* normalize_shape(shape, ns)
normalize_shape(shape0, ns) ==
    LET shape1 == IF shape0.t = "str" THEN parse(shape0.v) ELSE shape0
        shape == IF shape1.t \in {"int", "expr"} THEN <<shape1>> ELSE shape1.v
        components == [i \in DOMAIN shape |->
                          normalize_shape_component(shape[i], ns)]
    IN  IF \E i \in DOMAIN shape : ~components[i].ok
        THEN Raise("ValueError")
        ELSE Ok([i \in DOMAIN shape |-> components[i].val])

\* make_placeholder(namespace, name, shape, tags)
make_placeholder(ns, name, shape, tags) ==
    IF ~isidentifier(name) THEN Raise("ValueError")
    ELSE LET normalized == normalize_shape(shape, {ns})
         IN  IF ~normalized.ok THEN normalized
             ELSE Placeholder_init(ns, name, normalized.val, tags)

(***************************************************************************)
(* A program that works on one Namespace: assign, Placeholder(...),        *)
(* namespace[name] and make_placeholder in any order.                      *)
(***************************************************************************)
NamespaceNames == {"x", "n"}
NamespaceValues == {"ary1", "ary2", None}
CallerNames == NamespaceNames \cup {"0x"}
CallerShapes ==
    {PyTuple(<<PyInt(2)>>), PyTuple(<<PyInt(-1)>>), PyTuple(<<PyStr("n")>>),
     PyTuple(<<PyExpr(Variable("m")), PyInt(2)>>), PyStr("n + m"), PyInt(2)}

NamespaceInit ==
    /\ namespace = <<>> /\ ns_log = <<>>
    /\ scalar_call = <<>> /\ scalar_result = <<>>
    /\ pc = "namespace"
    /\ orig_outputs = <<>> /\ outputs = <<>> /\ compute_order = <<>>
    /\ state = get_initial_codegen_state
    /\ emitted = <<>>
    /\ dag = <<>> /\ dag_in = <<>> /\ ops = <<>> /\ batches = <<>>
    /\ call_opts = <<>>
    /\ objs = <<>> /\ prep_outputs = <<>> /\ mapper = <<>>
    /\ new_outputs = <<>> /\ raised = "none" /\ loopy_calls = <<>>

\* the log entry of an operation with outcome r, which carries the table
\* after the operation when it returns
Logged(op, name, arg, r) ==
    [op |-> op, name |-> name, arg |-> arg,
     exc |-> IF r.ok THEN "none" ELSE r.exc,
     table |-> IF r.ok THEN r.val.ns ELSE namespace]

Assign ==
    /\ pc = "namespace" /\ Len(ns_log) < MaxNamespaceOps
    /\ \E name \in NamespaceNames, value \in NamespaceValues :
          \E r \in {Namespace_assign(namespace, name, value)} :
              /\ namespace' = IF r.ok THEN r.val.ns ELSE namespace
              /\ ns_log' = Append(ns_log, Logged("assign", name, value, r))
    /\ UNCHANGED <<lvars, tvars, objs, prep_outputs, mapper, new_outputs,
                   raised, loopy_calls,
                   scalar_call, scalar_result>>

NewPlaceholder ==
    /\ pc = "namespace" /\ Len(ns_log) < MaxNamespaceOps
    /\ \E name \in NamespaceNames :
          \E r \in {Placeholder_init(namespace, name, <<PyInt(2)>>, {})} :
              /\ namespace' = IF r.ok THEN r.val.ns ELSE namespace
              /\ ns_log' = Append(ns_log, Logged("Placeholder", name, None, r))
    /\ UNCHANGED <<lvars, tvars, objs, prep_outputs, mapper, new_outputs,
                   raised, loopy_calls,
                   scalar_call, scalar_result>>

GetItem ==
    /\ pc = "namespace" /\ Len(ns_log) < MaxNamespaceOps
    /\ \E name \in NamespaceNames :
          \E r \in {Namespace_getitem(namespace, name)} :
              ns_log' = Append(ns_log,
                               [op |-> "getitem", name |-> name,
                                arg |-> IF r.ok THEN r.val ELSE None,
                                exc |-> IF r.ok THEN "none" ELSE r.exc,
                                table |-> namespace])
    /\ UNCHANGED <<lvars, tvars, objs, prep_outputs, mapper, new_outputs,
                   raised, loopy_calls, namespace,
                   scalar_call, scalar_result>>

MakePlaceholder ==
    /\ pc = "namespace" /\ Len(ns_log) < MaxNamespaceOps
    /\ \E name \in CallerNames, shape \in CallerShapes :
          \E r \in {make_placeholder(namespace, name, shape, {})} :
              /\ namespace' = IF r.ok THEN r.val.ns ELSE namespace
              /\ ns_log' = Append(ns_log,
                                  Logged("make_placeholder", name, shape, r))
    /\ UNCHANGED <<lvars, tvars, objs, prep_outputs, mapper, new_outputs,
                   raised, loopy_calls,
                   scalar_call, scalar_result>>

NamespaceNext == Assign \/ NewPlaceholder \/ GetItem \/ MakePlaceholder

SpecNamespace == NamespaceInit /\ [][NamespaceNext]_vars

(***************************************************************************)
(* Properties of the Namespace                                             *)
(***************************************************************************)
\* the table before the i-th operation
TableBefore(i) == IF i = 1 THEN <<>> ELSE ns_log[i - 1].table

\* the operations that assign: the value the i-th operation gives its name
IsAssignment(i) == ns_log[i].op \in {"assign", "Placeholder", "make_placeholder"}
AssignedValue(i) == IF ns_log[i].op = "assign" THEN ns_log[i].arg ELSE None

\* the first operation that assigned name successfully
FirstAssignment(name) ==
    CHOOSE i \in DOMAIN ns_log :
        /\ IsAssignment(i) /\ ns_log[i].name = name /\ ns_log[i].exc = "none"
        /\ \A j \in 1..(i - 1) :
              ~(IsAssignment(j) /\ ns_log[j].name = name
                    /\ ns_log[j].exc = "none")

\* C18: the Namespace is write-once per name.  Every name of the table has
\* the value of its first successful assignment; assign and Placeholder(...)
\* on a name already in the table raise ValueError and leave the table as it
\* was, and on a new name they add it, Placeholder(...) with the value None;
\* looking up a reserved name raises ValueError; no operation changes or
\* removes an entry of the table
C18_Theorem ==
    /\ namespace = TableBefore(Len(ns_log) + 1)
    /\ \A name \in DOMAIN namespace :
          /\ \E i \in DOMAIN ns_log :
                IsAssignment(i) /\ ns_log[i].name = name
                    /\ ns_log[i].exc = "none"
          /\ namespace[name] = AssignedValue(FirstAssignment(name))
    /\ \A i \in DOMAIN ns_log :
          LET e == ns_log[i]
              before == TableBefore(i)
          IN  /\ \A n \in DOMAIN before :
                    n \in DOMAIN e.table /\ e.table[n] = before[n]
              /\ e.op \in {"assign", "Placeholder"} =>
                    IF e.name \in DOMAIN before
                    THEN e.exc = "ValueError" /\ e.table = before
                    ELSE /\ e.exc = "none"
                         /\ DOMAIN e.table = DOMAIN before \cup {e.name}
                         /\ e.table[e.name] = AssignedValue(i)
              /\ e.op = "getitem" =>
                    /\ e.table = before
                    /\ (e.name \in DOMAIN before /\ before[e.name] = None)
                           => e.exc = "ValueError"
                    /\ (e.name \in DOMAIN before /\ before[e.name] # None)
                           => e.exc = "none" /\ e.arg = before[e.name]

\* a Placeholder reserved a name, then assigning an array to the name raised
\* and looking the name up raised
C18_Witness ==
    \E i, j, l \in DOMAIN ns_log :
        /\ i < j /\ i < l
        /\ ns_log[i].op = "Placeholder" /\ ns_log[i].exc = "none"
        /\ ns_log[j].op = "assign" /\ ns_log[j].name = ns_log[i].name
        /\ ns_log[j].arg # None /\ ns_log[j].exc = "ValueError"
        /\ ns_log[l].op = "getitem" /\ ns_log[l].name = ns_log[i].name
        /\ ns_log[l].exc = "ValueError"
        /\ namespace[ns_log[i].name] = None

\* the names of the variables of a scalar expression
RECURSIVE VariablesOf(_)
VariablesOf(expr) ==
    CASE expr.k = "Variable" -> {expr.name}
      [] expr.k = "Sum" ->
            UNION {VariablesOf(expr.children[i]) : i \in DOMAIN expr.children}

\* the names a shape written by the caller refers to
RECURSIVE ShapeNames(_)
ShapeNames(shape) ==
    CASE shape.t = "str" -> ShapeNames(parse(shape.v))
      [] shape.t = "int" -> {}
      [] shape.t = "expr" -> VariablesOf(shape.v)
      [] shape.t = "tuple" ->
            UNION {ShapeNames(shape.v[i]) : i \in DOMAIN shape.v}

\* C19 as stated: make_placeholder with a shape that refers to a name not
\* known in the namespace raises ValueError and reserves no name
C19_Original ==
    \A i \in DOMAIN ns_log :
        (/\ ns_log[i].op = "make_placeholder"
         /\ ShapeNames(ns_log[i].arg) \ DOMAIN TableBefore(i) # {})
            => /\ ns_log[i].exc = "ValueError"
               /\ ns_log[i].table = TableBefore(i)

(***************************************************************************)
(* _get_binding_to_concatenatability_scalar_expr applied to the scalar     *)
(* expression of an IndexLambda of two axes: sums of subscripted operands, *)
(* the indices being elementwise indices, constants, sums of them and      *)
(* indirect accesses through the operand idx.                              *)
(***************************************************************************)
ScalarIndices ==
    {I0, I1, ZeroLiteral, Sum(<<I0, ZeroLiteral>>),
     Subscript("idx", <<I0>>), Subscript("idx", <<I1>>)}
ScalarSubscripts ==
    {Subscript(name, <<i, j>>) :
        name \in {"in0", "in1"}, i \in ScalarIndices, j \in ScalarIndices}
ScalarExprs ==
    ScalarSubscripts
        \cup {Sum(<<s1, s2>>) : s1 \in ScalarSubscripts, s2 \in ScalarSubscripts}

ScalarInit ==
    /\ \E expr \in ScalarExprs, iaxis \in 0..1, allow_indirect_addr \in BOOLEAN :
          scalar_call = [expr |-> expr, iaxis |-> iaxis,
                         allow_indirect_addr |-> allow_indirect_addr]
    /\ scalar_result = <<>>
    /\ pc = "scalar"
    /\ orig_outputs = <<>> /\ outputs = <<>> /\ compute_order = <<>>
    /\ state = get_initial_codegen_state
    /\ emitted = <<>>
    /\ dag = <<>> /\ dag_in = <<>> /\ ops = <<>> /\ batches = <<>>
    /\ call_opts = <<>>
    /\ objs = <<>> /\ prep_outputs = <<>> /\ mapper = <<>>
    /\ new_outputs = <<>> /\ raised = "none" /\ loopy_calls = <<>>
    /\ namespace = <<>> /\ ns_log = <<>>

GetBindingToConcatenatability ==
    /\ pc = "scalar"
    /\ scalar_result' =
          _get_binding_to_concatenatability(scalar_call.expr, scalar_call.iaxis,
                                            scalar_call.allow_indirect_addr)
    /\ pc' = "mapped"
    /\ UNCHANGED <<orig_outputs, outputs, compute_order, state, emitted, tvars,
                   objs, prep_outputs, mapper, new_outputs, raised, loopy_calls,
                   namespace, ns_log, scalar_call>>

ScalarNext == GetBindingToConcatenatability

SpecScalar == ScalarInit /\ [][ScalarNext]_vars

\* the subscripts that occur in a scalar expression, at any depth
RECURSIVE SubscriptsOf(_)
SubscriptsOf(expr) ==
    CASE expr.k = "Subscript" ->
            {expr} \cup UNION {SubscriptsOf(expr.index_tuple[j]) :
                                  j \in DOMAIN expr.index_tuple}
      [] expr.k = "Sum" ->
            UNION {SubscriptsOf(expr.children[i]) : i \in DOMAIN expr.children}
      [] expr.k = "Reduce" -> SubscriptsOf(expr.inner_expr)
      [] OTHER -> {}

\* the scalar expression refers to the variable name
RECURSIVE RefersTo(_, _)
RefersTo(expr, name) ==
    CASE expr.k = "Variable" -> expr.name = name
      [] expr.k = "Subscript" ->
            \E j \in DOMAIN expr.index_tuple : RefersTo(expr.index_tuple[j], name)
      [] expr.k = "Sum" ->
            \E i \in DOMAIN expr.children : RefersTo(expr.children[i], name)
      [] expr.k = "Reduce" -> RefersTo(expr.inner_expr, name)
      [] OTHER -> FALSE

\* the positions, from 0, at which the bare variable name indexes sub
BarePositions(sub, name) ==
    {j - 1 : j \in {l \in DOMAIN sub.index_tuple :
                      sub.index_tuple[l] = Variable(name)}}

\* C20: when the mapper returns for the output axis a, every operand
\* subscripted with exactly one index equal to the bare variable _a, at
\* position j, is required to be ConcatableAlongAxis(j), and every operand
\* subscripted without any reference to _a is required to be
\* ConcatableIfConstant
C20_Theorem ==
    (pc = "mapped" /\ scalar_result.ok) =>
        \A sub \in SubscriptsOf(scalar_call.expr) :
            LET a == ElwIndexName(scalar_call.iaxis)
                required == scalar_result.val
            IN  /\ sub.aggregate \in DOMAIN required
                /\ \A j \in BarePositions(sub, a) :
                      BarePositions(sub, a) = {j} =>
                          required[sub.aggregate] = ConcatableAlongAxis(j)
                /\ ~RefersTo(sub, a) =>
                      required[sub.aggregate] = ConcatableIfConstant

\* in0[_0, _1] + in1[0, _1] mapped for the axis 0: in0 along its axis 0, in1
\* only if constant
C20_Witness ==
    /\ pc = "mapped" /\ scalar_result.ok
    /\ scalar_call.iaxis = 0
    /\ scalar_call.expr = Sum(<<Subscript("in0", <<I0, I1>>),
                                Subscript("in1", <<ZeroLiteral, I1>>)>>)
    /\ scalar_result.val["in0"] = ConcatableAlongAxis(0)
    /\ scalar_result.val["in1"] = ConcatableIfConstant

\* the variable name occurs in expr at a place that is not directly an index
\* of a subscript; direct tells whether expr itself is such an index
RECURSIVE OccursOutsideIndex(_, _, _)
OccursOutsideIndex(expr, name, direct) ==
    CASE expr.k = "Variable" -> expr.name = name /\ ~direct
      [] expr.k = "Subscript" ->
            \E j \in DOMAIN expr.index_tuple :
                OccursOutsideIndex(expr.index_tuple[j], name, TRUE)
      [] expr.k = "Sum" ->
            \E i \in DOMAIN expr.children :
                OccursOutsideIndex(expr.children[i], name, FALSE)
      [] expr.k = "Reduce" -> OccursOutsideIndex(expr.inner_expr, name, FALSE)
      [] OTHER -> FALSE

\* what one subscript by itself asks of its operand: to be concatenated along
\* the position of its only bare index name, else to be constant
OwnRequirement(sub, name) ==
    IF Cardinality(BarePositions(sub, name)) = 1
    THEN ConcatableAlongAxis(CHOOSE j \in BarePositions(sub, name) : TRUE)
    ELSE ConcatableIfConstant

\* the three cases of C21 for the expression mapped and the axis a
SeveralPositions(expr, name) ==
    \E sub \in SubscriptsOf(expr) : Cardinality(BarePositions(sub, name)) > 1
ConflictingSubscripts(expr, name) ==
    \E sub1, sub2 \in SubscriptsOf(expr) :
        /\ sub1.aggregate = sub2.aggregate
        /\ OwnRequirement(sub1, name) # OwnRequirement(sub2, name)
NotConcatenatableCase(expr, name) ==
    \/ OccursOutsideIndex(expr, name, FALSE)
    \/ SeveralPositions(expr, name)
    \/ ConflictingSubscripts(expr, name)

\* the entry ConcatableAlongAxis(iaxis) that _map_index_lambda_like writes for
\* IndexLambdas of the shapes given, all with the expression mapped: <<>>
\* if none
EntryForAxis(shapes) ==
    AxisOperandConcats(
        [i \in DOMAIN shapes |->
            [k |-> "IndexLambda", expr |-> scalar_call.expr, shape |-> shapes[i]]],
        scalar_call.iaxis, scalar_call.allow_indirect_addr, <<>>)

\* C21: when _a occurs outside a direct index position, when one subscript
\* has _a at several positions, or when two subscripts of one operand ask
\* different things of it, the mapper raises NonConcatableExpression and no
\* ConcatableAlongAxis(a) entry is written for an IndexLambda with this
\* expression, alone or with the bodies of other call sites
C21_Theorem ==
    (pc = "mapped"
        /\ NotConcatenatableCase(scalar_call.expr, ElwIndexName(scalar_call.iaxis)))
        => /\ scalar_result = Raise("NonConcatableExpression")
           /\ EntryForAxis(<<<<2, 2>>>>) = <<>>
           /\ EntryForAxis(<<<<2, 2>>, <<3, 3>>>>) = <<>>
           /\ EntryForAxis(<<<<1, 1>>, <<2, 2>>>>) = <<>>

\* in0[_0, _0] mapped for the axis 0, and in0[_0, _1] + in0[0, _1]
C21_Witness ==
    /\ pc = "mapped"
    /\ scalar_call.iaxis = 0
    /\ \/ scalar_call.expr = Subscript("in0", <<I0, I0>>)
       \/ scalar_call.expr = Sum(<<Subscript("in0", <<I0, I1>>),
                                   Subscript("in0", <<ZeroLiteral, I1>>)>>)
    /\ scalar_result = Raise("NonConcatableExpression")

\* the operands of expr that the variable name reaches only through an index
\* that is itself a subscript: no subscript of the operand has name as a bare
\* index, and one has an index that subscripts an operand by name
IndirectlyReached(expr, name) ==
    {sub.aggregate : sub \in
        {s \in SubscriptsOf(expr) :
            /\ \E j \in DOMAIN s.index_tuple :
                  /\ s.index_tuple[j].k = "Subscript"
                  /\ RefersTo(s.index_tuple[j], name)
            /\ \A s2 \in SubscriptsOf(expr) :
                  s2.aggregate = s.aggregate => BarePositions(s2, name) = {}}}

\* an IndexLambda node of two axes with the expression mapped, over
\* placeholders; map_index_lambda maps it without indirect addressing
ScalarOperands(expr) == {sub.aggregate : sub \in SubscriptsOf(expr)}
LambdaOfScalarCall ==
    IndexLambda(scalar_call.expr, <<2, 2>>,
                [n \in ScalarOperands(scalar_call.expr) |->
                    Placeholder(n, IF n = "idx" THEN <<2>> ELSE <<2, 2>>)],
                {})

\* validation accepts the requirement ConcatableIfConstant on an input only
\* if the input is the same array at every call site
IfConstantMeansSame ==
    \A p1, p2 \in {Placeholder("in0", <<2, 2>>), Placeholder("in0", <<3, 2>>),
                   Placeholder("in1", <<2, 2>>)} :
        (_ConcatabilityCollector(NewConcatabilityCollector, p1,
                                 ConcatableIfConstant, <<p2>>).exc = "none")
            <=> (p1 = p2)

\* C22: when _a reaches an operand only through an index that subscripts
\* another operand, the mapper raises NonConcatableExpression unless
\* indirect addressing is allowed, so an IndexLambda node, which is mapped
\* without it, gets no ConcatableAlongAxis(a) entry; when it is allowed and
\* the mapper returns, the operand is required to be ConcatableIfConstant,
\* which validation accepts only for arrays equal at all call sites
C22_Theorem ==
    (pc = "mapped"
        /\ IndirectlyReached(scalar_call.expr,
                             ElwIndexName(scalar_call.iaxis)) # {})
        => /\ ~scalar_call.allow_indirect_addr =>
                 /\ scalar_result = Raise("NonConcatableExpression")
                 /\ EntryForAxis(<<<<2, 2>>>>) = <<>>
           /\ (scalar_call.allow_indirect_addr /\ scalar_result.ok) =>
                 \A name \in IndirectlyReached(scalar_call.expr,
                                               ElwIndexName(scalar_call.iaxis)) :
                     /\ name \in DOMAIN scalar_result.val
                     /\ scalar_result.val[name] = ConcatableIfConstant
           /\ LET acc == _InputConcatabilityGetter(LambdaOfScalarCall, <<>>)
              IN  acc.ok =>
                      ConcatableAlongAxis(scalar_call.iaxis)
                          \notin DOMAIN acc.val.input_concatability
           /\ IfConstantMeansSame

\* in0[idx[_0], _1] mapped for the axis 0 with indirect addressing allowed:
\* in0 only if constant, idx along its axis 0
C22_Witness ==
    /\ pc = "mapped"
    /\ scalar_call.iaxis = 0
    /\ scalar_call.allow_indirect_addr
    /\ scalar_call.expr = Subscript("in0", <<Subscript("idx", <<I0>>), I1>>)
    /\ scalar_result.ok
    /\ scalar_result.val["in0"] = ConcatableIfConstant
    /\ scalar_result.val["idx"] = ConcatableAlongAxis(0)

====
